---------------------------- MODULE Spec2Model ----------------------------
(***************************************************************************)
(* Model of the concurrency substrate of the scraping service:             *)
(*   - RequestQueue        (utils/requestQueue.ts, src/unnamed/part_005)   *)
(*   - processWebsite      (src/src/processLinks.ts), the queue's caller   *)
(*   - parseError          (src/src/utils/errorHandler.ts)                 *)
(*   - BrowserManager      (src/src/browserManager.ts)                     *)
(* Each component has its own specification (SpecQ, SpecB); the variables  *)
(* of the other component stay at their initial values.                    *)
(***************************************************************************)
EXTENDS Integers, Sequences, FiniteSets, TLC

(***************************************************************************)
(* Bounds of the model.                                                    *)
(***************************************************************************)
\* number of Enqueue calls a behaviour may make; the ids are the numbers
\* 1..NumItems, given out in the order of the calls
NumItems == 4

\* number of those calls in the behaviours checked for liveness (SpecQFair)
NumLiveItems == 3

\* RequestQueue.maxConcurrent: constructor parameter, MAX_CONCURRENT_REQUESTS
\* in the environment (default 50); 2 is the configuration of the spec's
\* queue-admission scenario.
maxConcurrent == 2

Items == 1..NumItems

\* number of withPage calls a behaviour may make, numbered in call order
NumCallers == 3

\* BrowserManager.MAX_CONTEXTS (20 in the source), scaled down
MAX_CONTEXTS == 2

\* BrowserManager.MIN_CONTEXTS
MIN_CONTEXTS == 2

\* max of the page pool (10 in the source), scaled down
PagePoolMax == 1

\* number of those calls in the smaller behaviours (SpecF, SpecL)
NumFewCallers == 2

\* number of those calls in the behaviours about shutdown() alone (SpecS)
NumSoloCallers == 1

\* BrowserManager.BROWSER_RESTART_THRESHOLD (1000 in the source), scaled down
BROWSER_RESTART_THRESHOLD == 1

\* number of shutdown() calls a behaviour may make (SIGTERM, SIGINT, ...)
MaxShutdownCalls == 2

\* number of pending restart timers above which forceCleanupAndRestart is
\* not run again
MaxTimers == 1

\* largest maxRetries a processWithRetry call of a behaviour is given
MaxMaxRetries == 4

\* largest subpagesCount a request asks for
MaxK == 3

\* MAX_CONCURRENT_SUBPAGE_REQUESTS of the environment (part_005 line 800)
MAX_CONCURRENT_SUBPAGE_REQUESTS == 1

\* crawl requests (/process/api/processWebsite) served at a time
NumCrawls == 2

\* MAX_RETRIES (processLinks.ts line 43, part_005 line 803): the default '1'
MAX_RETRIES == 1

Callers == 1..NumCallers

\* identities of browser contexts.  At any time at most MAX_CONTEXTS belong
\* to the current context pool, PagePoolMax to the page pool, one per call
\* to a replaced context pool that had lent it to the call, and
\* MAX_CONTEXTS to the pool shutdown() drained if a call replaced it; the
\* identity of a context nothing refers to any more is given out again.
MaxCtx == 2 * MAX_CONTEXTS + PagePoolMax + NumCallers
Ctx == 1..MaxCtx

VARIABLES
    \* ---- RequestQueue ----
    queue,           \* RequestQueue.queue: sequence of waiting item ids
    activeRequests,  \* RequestQueue.activeRequests
    phase,           \* per item: "idle" | "waiting" | "running" | "done" | "removed"
                     \* ("unused": an id no Enqueue call of the behaviour gets)
    outcome,         \* per item: settlement of the promise Enqueue returned
    timeout,         \* per item: item.timeout (the queue-timeout timer) is armed
    reqTimer,        \* per item: the requestTimeout timer of processQueue is armed
    aborted,         \* per item: item.abortController.signal.aborted
    callerAborted,   \* per item: processWebsite's abortController.signal.aborted
    abortedWaiting,  \* per item: the caller's cancellation fired while the item waited
    invoked,         \* per item: number of times item.task was called
    scrapeStarted,   \* per item: the task got past its abort check (processWithRetry called)
    startOrder,      \* history: item ids in the order their task was invoked
    \* ---- BrowserManager ----
    ctxSt,           \* per context id: "free" (no such context yet) | "open" | "closed"
    ctxPool,         \* per context: the pool that created it: "pagePool" |
                     \* "contextPool" (this.contextPool) | "replaced" (a context
                     \* pool resetContextPool has replaced) | "none"
    ctxLoan,         \* per context: "none" | "idle" | "borrowed" in that pool
    pagesPerContext, \* this.pagesPerContext (absent = 0)
    ppOpen,          \* per page-pool context: its pooled page is open
    bmActiveRequests,\* BrowserManager.activeRequests
    pc,              \* per withPage call: "idle" | "getCtx" | "newPage" | "fn" | "done"
                     \* ("unused": a call the behaviour does not make)
    context,         \* per call: local `context` (0 = null)
    page,            \* per call: local `page`, named by its context (0 = null)
    pageOpen,        \* per call: that page is open (freshly created pages)
    hasHandler,      \* per call: setupPageRouting installed the 'close' handler
    reusingPage,     \* per call: local `reusingPage`
    latePending,     \* per context: newPage() calls that lost the race against
                     \* PAGE_TIMEOUT and have not resolved
    lateOpen,        \* per context: open pages such calls created (nobody holds them)
    leftPage,        \* history, per settled call: at its settlement a page it had
                     \* created or borrowed was neither closed nor back in the page pool
    connected,       \* this.browser is a connected browser
    poolDraining,    \* this.contextPool._draining
    pagePoolDraining,\* this.pagePool is draining
    totalPagesProcessed, \* this.totalPagesProcessed
    timers,          \* pending timers whose callback runs initializeBrowser (lines
                     \* 389 and 1112)
    initializing,    \* initializeBrowser runs between browser.close() and launch
    isShuttingDown,  \* this.isShuttingDown
    sd,              \* the shutdown() that passed the guard: "idle" | "drainCtx" |
                     \* "drainPages" | "done"
    shutdownCalls,   \* history: number of shutdown() calls made
    afterShutdown,   \* history, per running call: it was made after shutdown()
    \* ---- processWithRetry (one call) ----
    maxRetries,      \* parameter maxRetries
    rpc,             \* "idle" (not called) | "try" (awaiting processUrl) | "sleep"
                     \* (awaiting the backoff timer) | "returned" | "thrown"
    attempt,         \* loop variable `attempt`
    lastError,       \* local `lastError` ("null" = null); what is thrown in the end
    tried,           \* history: number of processUrl calls made
    errs,            \* history: the errors of the failed attempts, in order
    slept,           \* history: the backoffMs of the sleeps, in order
    \* ---- processWebsite (one request) ----
    req,             \* the options read from the request's body
    wpc,             \* "idle" (no request) | "root" (awaiting the root scrape) |
                     \* "fanout" (awaiting the subpages) | "responded"
    mainPageResult,  \* local `mainPageResult`: "null" | "ok"
    mainPageUrls,    \* local `pageUrls`: the page_urls of the root's result
    selected,        \* what selectBestSubpages returned (fellBack: through its catch)
    filtered,        \* local `filteredSubpageUrls`
    promise,         \* per subpage: the promise processUrlBatch made for it: "none" |
                     \* "queued" (in p-limit) | "pending" | "ok" | "error" |
                     \* "timeout" | "rejected"
    scrape,          \* per subpage: its processWithRetry call: "none" | "running" |
                     \* "ok" | "failed"
    batch,           \* the URLs lo..hi the running processUrlBatch was given
    response,        \* what was sent (status "none": nothing yet)
    \* ---- concurrent permitAuth calls (part_007) ----
    pdpTier,         \* per Permit user key: the tier attribute the PDP holds ("none":
                     \* the user was never synced)
    auth,            \* per permitAuth call: its request, its position and its decision
    \* ---- the responses of processWebsite (processLinks.ts) ----
    responses,       \* per item: bodies written to processWebsite's res
    \* ---- the links of a page (processUrl) and of a crawl (processWebsite) ----
    kpc,             \* "idle" | "page" (a page was scraped) | "merged" (and a
                     \* subpage's links were merged into the root's)
    rootAnchors,     \* the href of the anchors of the scraped page, in order
    subAnchors,      \* the same of the subpage
    linkBundle,      \* all_urls of the page's result (processUrl)
    mergedBundle,    \* the URL lists of the crawl's aggregated result
    \* ---- the metrics interval of BrowserManager ----
    tick,            \* history: the last metrics tick: what it observed and did
    \* ---- the HTTP layer (index.ts, the middleware, the route handlers) ----
    limiter,         \* the module behind './middleware/rateLimiter': "tiered"
                     \* (part_007 188-244) | "memory" (part_007 245-410)
    hits,            \* the counters of the rate limiters, per store
    hreq,            \* the HTTP request being served
    hpc,             \* "idle" | "passed" (the rate limiter called next) | "allowed"
                     \* (permitAuth called next) | "enqueued" | "scraping" | "responded"
    hlog,            \* history of that request: what the rate limiter and
                     \* permitAuth decided, whether it was enqueued, whether a
                     \* scrape was started for it, the status sent (0: none yet)
    crawlRoots,      \* root scrapes of /process/api/processWebsite in progress
    sdFailed,        \* history: the step of shutdown() whose await rejected
                     \* ("none": none did)
    cancelAt         \* history: the number of attempts processWithRetry had
                     \* started when its request was cancelled (-1: it was not)

qvars == <<queue, activeRequests, phase, outcome, timeout, reqTimer, aborted,
           callerAborted, abortedWaiting, invoked, scrapeStarted, startOrder>>

bvars == <<ctxSt, ctxPool, ctxLoan, pagesPerContext, ppOpen, bmActiveRequests,
           pc, context, page, pageOpen, hasHandler, reusingPage, latePending, lateOpen, leftPage,
           connected, poolDraining, pagePoolDraining, totalPagesProcessed, timers,
           initializing, isShuttingDown, sd, shutdownCalls, afterShutdown>>

\* the variables of the browser's life cycle that are no part of BState
svars == <<pagePoolDraining, initializing, isShuttingDown, sd, shutdownCalls>>

rvars == <<maxRetries, rpc, attempt, lastError, tried, errs, slept>>

\* the variables of the crawler (processWithRetry, processWebsite)
wvars == <<req, wpc, mainPageResult, mainPageUrls, selected, filtered, promise, scrape, batch, response>>

kvars == <<kpc, rootAnchors, subAnchors, linkBundle, mergedBundle>>

\* the metrics interval
mvars == <<tick>>

\* the HTTP layer
hvars == <<limiter, hits, hreq, hpc, hlog>>

\* crawl roots, and the history of a failed shutdown and of a cancellation
ovars == <<crawlRoots, sdFailed, cancelAt>>

\* processWebsite's responses
pvars == <<responses>>

\* concurrent permitAuth calls and the users the PDP holds
uvars == <<pdpTier, auth>>

gvars == <<ovars, pvars, uvars>>

xvars == <<kvars, mvars, hvars, gvars>>

cvars == <<rvars, wvars, xvars>>

\* all but the queue, the browser and processWebsite's responses
avars == <<rvars, wvars, kvars, mvars, hvars, ovars, uvars>>

vars == <<qvars, bvars, cvars>>

(***************************************************************************)
(* Error messages.  A message is the sequence of its lower-cased words     *)
(* (parseError lower-cases before matching); String.includes is modelled   *)
(* as a search for a contiguous run of words.                              *)
(***************************************************************************)
ErrMsg(e) ==
    CASE e = "queueTimeout"        -> <<"request", "timed", "out", "after", "ms", "waiting", "in", "queue">>
      [] e = "requestTimeout"      -> <<"request", "timed", "out", "after", "ms">>
      [] e = "abortedInQueue"      -> <<"request", "aborted", "while", "in", "queue">>
      [] e = "requestAborted"      -> <<"request", "aborted">>
      [] e = "pageCreationTimeout" -> <<"page", "creation", "timeout">>
      [] e = "navFailed"           -> <<"failed", "to", "navigate", "to", "page">>
      [] OTHER                     -> <<>>

Includes(msg, pat) ==
    \E i \in 1..(Len(msg) - Len(pat) + 1) : SubSeq(msg, i, i + Len(pat) - 1) = pat

parseError(e) ==
    LET m == ErrMsg(e) IN
    IF Includes(m, <<"timeout">>) \/ Includes(m, <<"timed", "out">>) THEN "TIMEOUT"
    ELSE IF Includes(m, <<"net::">>) \/ Includes(m, <<"network">>) \/ Includes(m, <<"connection">>)
         THEN "SCRAPING_ERROR"
    ELSE IF Includes(m, <<"browser">>) \/ Includes(m, <<"context">>) \/ Includes(m, <<"page">>)
         THEN "BROWSER_ERROR"
    ELSE IF Includes(m, <<"invalid">>) \/ Includes(m, <<"required">>) THEN "VALIDATION_ERROR"
    ELSE "SERVER_ERROR"

statusCodeMap(code) ==
    CASE code = "MISSING_PARAM"    -> 400
      [] code = "TIMEOUT"          -> 408
      [] code = "SCRAPING_ERROR"   -> 422
      [] code = "INVALID_URL"      -> 400
      [] code = "SERVER_ERROR"     -> 500
      [] code = "RATE_LIMIT"       -> 429
      [] code = "QUEUE_TIMEOUT"    -> 429
      [] code = "UNAUTHORIZED"     -> 401
      [] code = "BROWSER_ERROR"    -> 500
      [] code = "VALIDATION_ERROR" -> 400
      [] OTHER                     -> 500

\* failures a task (processWithRetry) can settle with
TaskErrors == {"navFailed"}

(***************************************************************************)
(* RequestQueue                                                            *)
(***************************************************************************)
QState == [queue |-> queue, active |-> activeRequests, phase |-> phase,
           outcome |-> outcome, timeout |-> timeout, reqTimer |-> reqTimer,
           aborted |-> aborted, invoked |-> invoked,
           scrapeStarted |-> scrapeStarted, startOrder |-> startOrder]

\* a promise settles once: later resolve/reject calls are ignored
Settle_last(old, new) == new
Settle(old, new) == IF old = "pending" THEN new ELSE old

\* processQueue's admission test (line 91)
AtCapacity_gt(s) == s.active > maxConcurrent \/ s.queue = <<>>
AtCapacity(s) == s.active >= maxConcurrent \/ s.queue = <<>>

\* queue.shift() (line 96): the item taken and the queue left
Shift_pop(q) == [item |-> q[Len(q)], rest |-> SubSeq(q, 1, Len(q) - 1)]
Shift(q) == [item |-> Head(q), rest |-> Tail(q)]

\* the task handed to Enqueue by processWebsite (processLinks.ts 292-300):
\* it throws 'Request aborted' when the caller's controller is aborted,
\* otherwise it starts processWithRetry
TaskStartsScrape(i) == ~callerAborted[i]

\* processQueue (lines 89-141) up to its first await.  The dispatch-time
\* abort branch throws before any await, so its catch/finally, and the
\* processQueue call in it, run in the same step.
RECURSIVE processQueue(_)
processQueue(s) ==
    IF AtCapacity(s) THEN s
    ELSE LET item == Shift(s.queue).item
             s1 == [s EXCEPT !.queue = Shift(s.queue).rest,
                             !.timeout[item] = FALSE,
                             !.active = @ + 1]
         IN IF s1.aborted[item]
            THEN processQueue([s1 EXCEPT !.outcome[item] = Settle(@, "abortedInQueue"),
                                         !.phase[item] = "done",
                                         !.active = @ - 1])
            ELSE [s1 EXCEPT !.reqTimer[item] = TRUE,
                            !.phase[item] = "running",
                            !.invoked[item] = @ + 1,
                            !.scrapeStarted[item] = TaskStartsScrape(item),
                            !.startOrder = Append(@, item)]

Apply(s) ==
    /\ queue' = s.queue
    /\ activeRequests' = s.active
    /\ phase' = s.phase
    /\ outcome' = s.outcome
    /\ timeout' = s.timeout
    /\ reqTimer' = s.reqTimer
    /\ aborted' = s.aborted
    /\ invoked' = s.invoked
    /\ scrapeStarted' = s.scrapeStarted
    /\ startOrder' = s.startOrder

\* res.status(..).json(..) (processLinks.ts 318, errorHandler.ts 146) on a
\* response that has n bodies on the wire: the first call writes one; a later
\* call throws on setting a header after the headers went out and writes
\* nothing
json_again(n) == n + 1
json(n) == IF n > 0 THEN n ELSE n + 1

\* processWebsite after its await of enqueue (processLinks.ts 290-341), with n
\* bodies on the wire: the success response when the promise was fulfilled
\* (318), where a throw of json lands in the catch block like a rejection; in
\* the catch block the error response only if the controller is not aborted
\* (327-336)
processWebsiteSettles(n, result, isAborted) == IF result = "resolved" /\ json(n) # n THEN json(n) ELSE IF ~isAborted THEN json(n) ELSE n

\* the await of enqueue resumes in the step that settles the promise, before
\* any timer can run
Answer ==
    responses' = [i \in Items |->
       IF outcome[i] = "pending" /\ outcome'[i] # "pending"
       THEN processWebsiteSettles(responses[i], outcome'[i], callerAborted[i])
       ELSE responses[i]]

\* the end of enqueue (lines 81-82): this.processQueue()
AfterPush_idle(s) == s
AfterPush(s) == processQueue(s)

\* enqueue (lines 59-84): arm the queue timer, push, processQueue
enqueue(i) ==
    /\ UNCHANGED <<bvars, avars>>
    /\ phase[i] = "idle"
    /\ \A j \in Items : j < i => phase[j] # "idle"
    /\ Apply(AfterPush([QState EXCEPT !.queue = Append(@, i),
                                      !.phase[i] = "waiting",
                                      !.timeout[i] = TRUE]))
    /\ UNCHANGED <<callerAborted, abortedWaiting>>
    /\ Answer

\* what the finally block of processQueue does after the task settled
\* (lines 134-140): decrement, then processQueue
Finally_noNext(s) == [s EXCEPT !.active = @ - 1]
Finally(s) == processQueue([s EXCEPT !.active = @ - 1])

\* the task's promise resolves: clearTimeout, item.resolve (lines 125-130)
TaskSucceeds(i) ==
    /\ UNCHANGED <<bvars, avars>>
    /\ phase[i] = "running"
    /\ scrapeStarted[i]
    /\ Apply(Finally([QState EXCEPT !.reqTimer[i] = FALSE,
                                    !.outcome[i] = Settle(@, "resolved"),
                                    !.phase[i] = "done"]))
    /\ UNCHANGED <<callerAborted, abortedWaiting>>
    /\ Answer

\* the task's promise rejects: item.reject (lines 131-133); the request
\* timer is not cleared on this path
TaskFails(i) ==
    /\ UNCHANGED <<bvars, avars>>
    /\ phase[i] = "running"
    /\ \E e \in (IF scrapeStarted[i] THEN TaskErrors ELSE {"requestAborted"}) :
          Apply(Finally([QState EXCEPT !.outcome[i] = Settle(@, e),
                                       !.phase[i] = "done"]))
    /\ UNCHANGED <<callerAborted, abortedWaiting>>
    /\ Answer

\* handleQueueTimeout (lines 146-157), run by the timer armed in enqueue
handleQueueTimeout(i) ==
    /\ UNCHANGED <<bvars, avars>>
    /\ timeout[i]
    /\ timeout' = [timeout EXCEPT ![i] = FALSE]
    /\ IF \E k \in 1..Len(queue) : queue[k] = i
       THEN /\ queue' = SelectSeq(queue, LAMBDA x : x # i)
            /\ outcome' = [outcome EXCEPT ![i] = Settle(@, "queueTimeout")]
            /\ phase' = [phase EXCEPT ![i] = "removed"]
       ELSE UNCHANGED <<queue, outcome, phase>>
    /\ UNCHANGED <<activeRequests, reqTimer, aborted, callerAborted, abortedWaiting,
                   invoked, scrapeStarted, startOrder>>
    /\ Answer

\* the callback of the requestTimeout timer (lines 117-120): abort the
\* item's controller and reject its promise; activeRequests is left alone
onRequestTimeout_release(s, i) == [s EXCEPT !.aborted[i] = TRUE, !.outcome[i] = Settle(@, "requestTimeout"), !.active = @ - 1]
onRequestTimeout(s, i) == [s EXCEPT !.aborted[i] = TRUE, !.outcome[i] = Settle(@, "requestTimeout")]

\* the requestTimeout timer of processQueue fires (lines 117-120)
RequestTimeout(i) ==
    /\ UNCHANGED <<bvars, avars>>
    /\ reqTimer[i]
    /\ Apply(onRequestTimeout([QState EXCEPT !.reqTimer[i] = FALSE], i))
    /\ UNCHANGED <<callerAborted, abortedWaiting>>
    /\ Answer

\* processWebsite's global timeout fires (processLinks.ts 280-288): the
\* caller's controller is aborted and the timeout response is sent.  The
\* timer is cleared once Enqueue has settled (lines 303, 324).
GlobalTimeout(i) ==
    /\ UNCHANGED <<bvars, avars>>
    /\ responses' = [responses EXCEPT ![i] = json(@)]
    /\ phase[i] # "idle"
    /\ outcome[i] = "pending"
    /\ ~callerAborted[i]
    /\ callerAborted' = [callerAborted EXCEPT ![i] = TRUE]
    /\ abortedWaiting' = [abortedWaiting EXCEPT ![i] = (phase[i] = "waiting")]
    /\ UNCHANGED <<queue, activeRequests, phase, outcome, timeout, reqTimer, aborted,
                   invoked, scrapeStarted, startOrder>>

\* the queue as constructed (lines 35-36), with n Enqueue calls to come
InitQn(n) ==
    /\ queue = <<>>
    /\ activeRequests = 0
    /\ phase = [i \in Items |-> IF i <= n THEN "idle" ELSE "unused"]
    /\ outcome = [i \in Items |-> "pending"]
    /\ timeout = [i \in Items |-> FALSE]
    /\ reqTimer = [i \in Items |-> FALSE]
    /\ aborted = [i \in Items |-> FALSE]
    /\ callerAborted = [i \in Items |-> FALSE]
    /\ abortedWaiting = [i \in Items |-> FALSE]
    /\ invoked = [i \in Items |-> 0]
    /\ scrapeStarted = [i \in Items |-> FALSE]
    /\ startOrder = <<>>

NextQ ==
    \/ \E i \in Items : enqueue(i)
    \/ \E i \in Items : TaskSucceeds(i)
    \/ \E i \in Items : TaskFails(i)
    \/ \E i \in Items : handleQueueTimeout(i)
    \/ \E i \in Items : RequestTimeout(i)
    \/ \E i \in Items : GlobalTimeout(i)

InitQ == InitQn(NumItems)

(***************************************************************************)
(* BrowserManager                                                          *)
(*                                                                         *)
(* The two generic-pool pools are modelled by their contract: a resource   *)
(* is lent to one borrower at a time, an idle resource is preferred to a   *)
(* new one, at most `max` resources exist per pool, and release of a       *)
(* resource the pool does not hold on loan is rejected.  A step below is   *)
(* the run of the code between two points where a call waits for the pool, *)
(* the browser or the caller's fn.                                         *)
(***************************************************************************)
BState == [ctxSt |-> ctxSt, ctxPool |-> ctxPool,
           ctxLoan |-> ctxLoan, ppc |-> pagesPerContext, ppOpen |-> ppOpen,
           context |-> context, page |-> page, pageOpen |-> pageOpen,
           hasHandler |-> hasHandler, reusingPage |-> reusingPage,
           latePending |-> latePending, lateOpen |-> lateOpen,
           connected |-> connected, poolDraining |-> poolDraining,
           tpp |-> totalPagesProcessed, timers |-> timers]

ApplyB(b) ==
    /\ ctxSt' = b.ctxSt
    /\ ctxPool' = b.ctxPool
    /\ ctxLoan' = b.ctxLoan
    /\ pagesPerContext' = b.ppc
    /\ ppOpen' = b.ppOpen
    /\ context' = b.context
    /\ page' = b.page
    /\ pageOpen' = b.pageOpen
    /\ hasHandler' = b.hasHandler
    /\ reusingPage' = b.reusingPage
    /\ latePending' = b.latePending
    /\ lateOpen' = b.lateOpen
    /\ connected' = b.connected
    /\ poolDraining' = b.poolDraining
    /\ totalPagesProcessed' = b.tpp
    /\ timers' = b.timers

Min(S) == CHOOSE x \in S : \A y \in S : x <= y
Max0(a) == IF a > 0 THEN a ELSE 0

\* the first n elements of a set of numbers
RECURSIVE FirstN(_, _)
FirstN(S, n) == IF n = 0 \/ S = {} THEN {} ELSE {Min(S)} \cup FirstN(S \ {Min(S)}, n - 1)

\* browser.contexts()
LiveContexts(b) == {x \in Ctx : b.ctxSt[x] = "open"}

\* the callers' freshly created pages that are open in context x
FreshPages(b, x) == {c \in Callers : b.page[c] = x /\ ~b.reusingPage[c] /\ b.pageOpen[c]}

\* context.pages().length
PageCount(b, x) ==
    Cardinality(FreshPages(b, x)) + b.lateOpen[x] + (IF b.ppOpen[x] THEN 1 ELSE 0)

\* open pages of x on which setupPageRouting installed its 'close' handler
HandlerPageCount(b, x) ==
    Cardinality({c \in FreshPages(b, x) : b.hasHandler[c]}) + (IF b.ppOpen[x] THEN 1 ELSE 0)

\* nothing refers to context x any more: its identity is free again
Forget(b, x) ==
    [b EXCEPT !.ctxSt[x] = "free", !.ctxPool[x] = "none", !.ctxLoan[x] = "none",
              !.ppc[x] = 0]

\* context.close(), or the context going down with its browser: its pages
\* close and their 'close' handlers (lines 989-1003) count down.  A closed
\* context that a replaced pool holds idle is referred to by nothing.
CloseContext(b, x) ==
    LET b1 == [b EXCEPT !.ctxSt[x] = IF @ = "free" THEN @ ELSE "closed",
                        !.ppc[x] = Max0(@ - HandlerPageCount(b, x)),
                        !.ppOpen[x] = FALSE,
                        !.pageOpen = [c \in Callers |->
                                        IF b.page[c] = x /\ ~b.reusingPage[c] THEN FALSE ELSE @[c]],
                        !.latePending[x] = 0,
                        !.lateOpen[x] = 0]
    IN IF b.ctxPool[x] = "replaced" /\ b.ctxLoan[x] = "idle" THEN Forget(b1, x) ELSE b1

RECURSIVE CloseContexts(_, _)
CloseContexts(b, S) ==
    IF S = {} THEN b ELSE CloseContexts(CloseContext(b, Min(S)), S \ {Min(S)})

\* browser.close(): every context and page of the browser closes, and the
\* 'disconnected' handler (lines 369, 384-398) arms a timer that will run
\* initializeBrowser
CloseBrowser(b) ==
    IF b.connected
    THEN [CloseContexts(b, LiveContexts(b)) EXCEPT !.connected = FALSE,
                                                  !.timers["recover"] = @ + 1]
    ELSE b

\* initializeBrowser from the launch on (lines 334-376)
Launch(b) == [b EXCEPT !.connected = TRUE, !.tpp = 0]

\* initializeBrowser (lines 325-382): the existing browser is closed first,
\* then a new one is launched
initializeBrowser(b) == Launch(CloseBrowser(b))

\* checkBrowserHealth (lines 1079-1089), run by the context pool's factory
\* before it creates a context (line 274)
checkBrowserHealth(b) == IF ~b.connected THEN initializeBrowser(b) ELSE b

\* context.close() followed by pagesPerContext.delete(context)
CloseAndForget(b, x) == [CloseContext(b, x) EXCEPT !.ppc[x] = 0]

RECURSIVE CloseAndForgetAll(_, _)
CloseAndForgetAll(b, S) ==
    IF S = {} THEN b ELSE CloseAndForgetAll(CloseAndForget(b, Min(S)), S \ {Min(S)})

\* tryCloseEmptyContext (lines 1014-1026)
tryCloseEmptyContext(b, x) ==
    IF PageCount(b, x) = 0 THEN CloseAndForget(b, x) ELSE b

\* the 'close' handler of setupPageRouting (lines 989-1003), run once the
\* page is gone from its context
OnPageClose(b, x) ==
    LET currentCount == b.ppc[x]
        b1 == [b EXCEPT !.ppc[x] = IF currentCount > 0 THEN currentCount - 1 ELSE 0]
    IN IF currentCount <= 1 THEN tryCloseEmptyContext(b1, x) ELSE b1

\* cleanupPage's test before it closes the page's context (line 1216)
MayCloseContext(b) == Cardinality(LiveContexts(b)) > MIN_CONTEXTS

\* cleanupPage (lines 1178-1229) for the freshly created page of call c;
\* chance: Math.random() < 0.3 (line 1210)
cleanupPage(b, c, chance) ==
    LET x == b.page[c] IN
    IF ~b.pageOpen[c] THEN b
    ELSE LET b1 == [b EXCEPT !.pageOpen[c] = FALSE]
             b2 == IF b.hasHandler[c] THEN OnPageClose(b1, x) ELSE b1
             currentCount == b2.ppc[x]
             b3 == [b2 EXCEPT !.ppc[x] = IF currentCount > 0 THEN currentCount - 1 ELSE @]
         IN IF currentCount <= 1 /\ chance /\ PageCount(b3, x) = 0 /\ MayCloseContext(b3)
            THEN CloseAndForget(b3, x)
            ELSE b3

\* contextPool.release(context) (lines 927-933): the pool rejects a context
\* it does not hold on loan, and withPage logs that
ReleaseContext(b, x) ==
    IF b.ctxPool[x] = "contextPool" /\ b.ctxLoan[x] = "borrowed"
    THEN [b EXCEPT !.ctxLoan[x] = "idle"]
    ELSE b

\* the finally block of withPage (lines 899-949) for call c
Finally_B(b, c, chance) ==
    LET b1 == IF b.page[c] = 0 THEN b
              ELSE IF b.reusingPage[c]
                   THEN [b EXCEPT !.ctxLoan[b.page[c]] = "idle"]
                   ELSE cleanupPage(b, c, chance)
    IN IF b.context[c] # 0 /\ ~b.reusingPage[c] THEN ReleaseContext(b1, b.context[c]) ELSE b1

\* a page of call c is open and not (back) in the page pool
PageLeft(b, c) ==
    /\ b.page[c] # 0
    /\ IF b.reusingPage[c]
       THEN b.ctxLoan[b.page[c]] = "borrowed" /\ b.ppOpen[b.page[c]]
       ELSE b.pageOpen[c]

\* the locals of a call that has returned are gone
Return(b, c) ==
    [b EXCEPT !.page[c] = 0, !.pageOpen[c] = FALSE, !.hasHandler[c] = FALSE,
              !.reusingPage[c] = FALSE, !.context[c] = 0]

\* withPage settles: the finally block runs and the call returns or throws
Settled(c, b, chance) ==
    LET b1 == Finally_B(b, c, chance) IN
    /\ ApplyB(Return(b1, c))
    /\ leftPage' = [leftPage EXCEPT ![c] = PageLeft(b1, c)]
    /\ bmActiveRequests' = bmActiveRequests - 1
    /\ pc' = [pc EXCEPT ![c] = "done"]
    /\ afterShutdown' = [afterShutdown EXCEPT ![c] = FALSE]
    /\ UNCHANGED svars

\* resetContextPool (lines 732-782): the old pool is left draining, a new
\* pool is made current and started, and holds MIN_CONTEXTS new contexts
\* (its factory relaunches the browser if there is none).  Nothing refers
\* any more to a closed context the old pool held idle.
resetContextPool(b0) ==
    LET b == checkBrowserHealth(b0)
        old == {x \in Ctx : b.ctxPool[x] = "contextPool"}
        gone == {x \in old : b.ctxLoan[x] = "idle" /\ b.ctxSt[x] = "closed"}
        new == FirstN({x \in Ctx : b.ctxSt[x] = "free"} \cup gone, MIN_CONTEXTS)
    IN [b EXCEPT !.poolDraining = FALSE,
                 !.ctxSt = [x \in Ctx |-> IF x \in new THEN "open"
                                          ELSE IF x \in gone THEN "free" ELSE @[x]],
                 !.ctxPool = [x \in Ctx |-> IF x \in new THEN "contextPool"
                                            ELSE IF x \in gone THEN "none"
                                            ELSE IF x \in old THEN "replaced" ELSE @[x]],
                 !.ctxLoan = [x \in Ctx |-> IF x \in new THEN "idle"
                                            ELSE IF x \in gone THEN "none" ELSE @[x]],
                 !.ppc = [x \in Ctx |-> IF x \in new \cup gone THEN 0 ELSE @[x]]]

\* ensurePoolIsNotDraining (lines 718-729)
ensurePoolIsNotDraining(b) == IF b.poolDraining THEN resetContextPool(b) ELSE b

\* `if (!page)` (line 847): a context is acquired only when no pooled page was got
NeedsContext_always(p) == TRUE
NeedsContext(p) == p = 0

IdlePages(b) == {x \in Ctx : b.ctxPool[x] = "pagePool" /\ b.ctxLoan[x] = "idle"}
PagePoolSize(b) == Cardinality({x \in Ctx : b.ctxPool[x] = "pagePool" /\ b.ctxLoan[x] # "none"})
FreeIds(b) == {x \in Ctx : b.ctxSt[x] = "free"}

\* what pagePool.acquire() can hand out: an idle page, else a new one in a
\* context of its own (lines 181-191) while the pool holds fewer than max;
\* nothing once the pool is draining
PagesAvailable(b) ==
    IF pagePoolDraining THEN {}
    ELSE IF IdlePages(b) # {} THEN IdlePages(b)
    ELSE IF PagePoolSize(b) < PagePoolMax /\ b.connected /\ FreeIds(b) # {}
         THEN {Min(FreeIds(b))} ELSE {}

\* the entry of withPage (lines 784-797): activeRequests++ and
\* ensurePoolIsNotDraining
Enter(c, b, next) ==
    /\ UNCHANGED <<qvars, cvars>>
    /\ pc[c] = "idle"
    /\ \A d \in Callers : d < c => pc[d] # "idle"
    /\ ApplyB(b)
    /\ pc' = [pc EXCEPT ![c] = next]
    /\ bmActiveRequests' = bmActiveRequests + 1
    /\ afterShutdown' = [afterShutdown EXCEPT ![c] = isShuttingDown]
    /\ UNCHANGED <<leftPage, svars>>

\* withPage (lines 784-844): the page pool hands over a page
StartPooled(c) ==
    LET b == ensurePoolIsNotDraining(BState) IN
    \E x \in PagesAvailable(b) :
        Enter(c, [b EXCEPT !.ctxSt[x] = IF @ = "free" THEN "open" ELSE @,
                           !.ctxPool[x] = "pagePool",
                           !.ctxLoan[x] = "borrowed",
                           !.ppOpen[x] = IF b.ctxSt[x] = "free" THEN TRUE ELSE @,
                           !.ppc[x] = IF b.ctxSt[x] = "free" THEN 1 ELSE @,
                           !.page[c] = x,
                           !.reusingPage[c] = TRUE],
              IF NeedsContext(x) THEN "getCtx" ELSE "fn")

\* withPage (lines 784-847): the page pool is not tried (Math.random() <=
\* 0.2) or gives no page within 500 ms or rejects
StartFresh(c) == Enter(c, ensurePoolIsNotDraining(BState), "getCtx")

IdleContexts(b) == {x \in Ctx : b.ctxPool[x] = "contextPool" /\ b.ctxLoan[x] = "idle"}
PoolSize(b) == Cardinality({x \in Ctx : b.ctxPool[x] = "contextPool" /\ b.ctxLoan[x] # "none"})

\* validate (lines 304-311), run on borrow (testOnBorrow): the handle is not
\* null and has a newPage method, which a closed context has as well
validate(x) == x # 0

\* what contextPool.acquire() can hand out now: an idle context, else a new
\* one while the pool holds fewer than max (lines 312-321); nothing once the
\* pool is draining
Available(b) ==
    IF b.poolDraining THEN {}
    ELSE IF IdleContexts(b) # {} THEN {x \in IdleContexts(b) : validate(x)}
    ELSE IF PoolSize(b) < MAX_CONTEXTS /\ FreeIds(b) # {} THEN {Min(FreeIds(b))} ELSE {}

\* getLeastBusyContext (lines 680-715): ensurePoolIsNotDraining, then
\* contextPool.acquire() resolves; the factory of a new context runs
\* checkBrowserHealth first (lines 273-276)
AcquireContext(c) ==
    /\ UNCHANGED <<qvars, cvars>>
    /\ pc[c] = "getCtx"
    /\ LET b0 == ensurePoolIsNotDraining(BState) IN
       \E x \in Available(b0) :
          LET b == IF b0.ctxSt[x] = "free" THEN checkBrowserHealth(b0) ELSE b0 IN
          ApplyB([b EXCEPT !.ctxSt[x] = IF @ = "free" THEN "open" ELSE @,
                           !.ctxPool[x] = "contextPool",
                           !.ctxLoan[x] = "borrowed",
                           !.context[c] = x])
    /\ pc' = [pc EXCEPT ![c] = "newPage"]
    /\ UNCHANGED <<bmActiveRequests, leftPage, afterShutdown, svars>>

\* getLeastBusyContext: every acquire timed out (acquireTimeoutMillis) and
\* withPage throws
AcquireFails(c) ==
    /\ UNCHANGED <<qvars, cvars>>
    /\ pc[c] = "getCtx"
    /\ LET b0 == ensurePoolIsNotDraining(BState) IN
          /\ Available(b0) = {}
          /\ Settled(c, b0, FALSE)

\* lines 858-877: newPage() wins the race, the counter is incremented, and
\* setupPageRouting installs the route and the handler and counts again
NewPageOk(c) ==
    /\ UNCHANGED <<qvars, cvars>>
    /\ pc[c] = "newPage"
    /\ ctxSt[context[c]] = "open"
    /\ ApplyB([BState EXCEPT !.page[c] = context[c], !.pageOpen[c] = TRUE,
                             !.hasHandler[c] = TRUE, !.ppc[context[c]] = @ + 2])
    /\ pc' = [pc EXCEPT ![c] = "fn"]
    /\ UNCHANGED <<bmActiveRequests, leftPage, afterShutdown, svars>>

\* lines 858-869: the page is created and counted, page.route throws
NewPageRouteFails(c) ==
    /\ UNCHANGED <<qvars, cvars>>
    /\ pc[c] = "newPage"
    /\ ctxSt[context[c]] = "open"
    /\ \E chance \in BOOLEAN :
          Settled(c, [BState EXCEPT !.page[c] = context[c], !.pageOpen[c] = TRUE,
                                 !.ppc[context[c]] = @ + 1],
                  chance)

\* lines 858-863: the PAGE_TIMEOUT timer wins the race; newPage() is left pending
NewPageTimeout(c) ==
    /\ UNCHANGED <<qvars, cvars>>
    /\ pc[c] = "newPage"
    /\ ctxSt[context[c]] = "open"
    /\ Settled(c, [BState EXCEPT !.latePending[context[c]] = @ + 1], FALSE)

\* the newPage() that lost the race resolves
LatePage(x) ==
    /\ UNCHANGED <<qvars, cvars>>
    /\ latePending[x] > 0
    /\ ctxSt[x] = "open"
    /\ ApplyB([BState EXCEPT !.latePending[x] = @ - 1, !.lateOpen[x] = @ + 1])
    /\ UNCHANGED <<bmActiveRequests, pc, leftPage, afterShutdown, svars>>

\* lines 858-863: newPage() rejects, the context being closed
NewPageThrows(c) ==
    /\ UNCHANGED <<qvars, cvars>>
    /\ pc[c] = "newPage"
    /\ ctxSt[context[c]] = "closed"
    /\ Settled(c, BState, FALSE)

PageUsable(c) == IF reusingPage[c] THEN ppOpen[page[c]] ELSE pageOpen[c]

\* lines 887-890: scheduleBackgroundBrowserRestart (1108-1112) arms its timer
\* once the threshold is reached, unless shutdown() has begun
ScheduleRestart_never(b) == b
ScheduleRestart(b) ==
    IF b.tpp >= BROWSER_RESTART_THRESHOLD /\ ~isShuttingDown
    THEN [b EXCEPT !.timers["restart"] = @ + 1]
    ELSE b

\* lines 877-892: fn(page) resolves, the page is counted
FnSucceeds(c) ==
    /\ UNCHANGED <<qvars, cvars>>
    /\ pc[c] = "fn"
    /\ PageUsable(c)
    /\ \E chance \in BOOLEAN :
          Settled(c, ScheduleRestart([BState EXCEPT !.tpp = @ + 1]), chance)

\* lines 877, 894-897: fn(page) rejects
FnFails(c) ==
    /\ UNCHANGED <<qvars, cvars>>
    /\ pc[c] = "fn"
    /\ \E chance \in BOOLEAN : Settled(c, BState, chance)

\* releaseUnusedContexts (lines 1248-1357) at a process RSS of mem MB
releaseUnusedContexts(b, mem) ==
    LET contexts == LiveContexts(b)
        minContextsToKeep == IF mem > 1000
                             THEN (IF MIN_CONTEXTS > 2 THEN MIN_CONTEXTS ELSE 2)
                             ELSE (IF MIN_CONTEXTS > 3 THEN MIN_CONTEXTS ELSE 3)
        empty == {x \in contexts : b.ppc[x] = 0 /\ PageCount(b, x) = 0}
        firstPass == IF mem > 1500 THEN FirstN(empty, 2) ELSE {}
        lowCount == {x \in contexts : b.ppc[x] <= 1}
        zeroCount == {x \in lowCount : b.ppc[x] = 0}
        scanned == IF zeroCount = {} THEN lowCount
                   ELSE {x \in lowCount : x <= Min(zeroCount)}
        contextToClose ==
            CHOOSE x \in scanned : \A y \in scanned :
                b.ppc[x] < b.ppc[y] \/ (b.ppc[x] = b.ppc[y] /\ x <= y)
    IN IF mem < 400 \/ Cardinality(contexts) <= minContextsToKeep THEN b
       ELSE IF firstPass # {} THEN CloseAndForgetAll(b, firstPass)
       ELSE IF mem > 2000 /\ scanned # {} THEN CloseAndForget(b, contextToClose)
       ELSE b

\* RSS values (MB): below every threshold, above 1500, above 2000
MemSamples == {300, 1600, 2100}

ReleaseUnused ==
    /\ UNCHANGED <<qvars, cvars>>
    /\ \E mem \in MemSamples : ApplyB(releaseUnusedContexts(BState, mem))
    /\ UNCHANGED <<bmActiveRequests, pc, leftPage, afterShutdown, svars>>

\* forceCleanupAndRestart (lines 1362-1406): releaseUnusedContexts, then
\* initializeBrowser closes the browser (and with it every context and
\* page) and launches a new one, then resetContextPool
forceCleanupAndRestart ==
    /\ UNCHANGED <<qvars, cvars>>
    /\ timers["recover"] < MaxTimers
    /\ \E mem \in MemSamples :
          LET b1 == releaseUnusedContexts(BState, mem)
              b2 == initializeBrowser(b1)
          IN ApplyB(resetContextPool(b2))
    /\ UNCHANGED <<bmActiveRequests, pc, leftPage, afterShutdown, svars>>

\* a timer fires and its callback calls initializeBrowser, which closes the
\* existing browser and awaits the launch of the new one.  k = "restart":
\* the timer of scheduleBackgroundBrowserRestart (lines 1112-1120);
\* k = "recover": the timer of handleBrowserDisconnect (lines 389-392)
TimerFires(k) ==
    /\ UNCHANGED <<qvars, cvars>>
    /\ timers[k] > 0
    /\ ApplyB(CloseBrowser([BState EXCEPT !.timers[k] = @ - 1]))
    /\ initializing' = [initializing EXCEPT ![k] = @ + 1]
    /\ UNCHANGED <<bmActiveRequests, pc, leftPage, afterShutdown,
                   pagePoolDraining, isShuttingDown, sd, shutdownCalls>>

\* the launch awaited by that initializeBrowser completes (lines 334-376);
\* the old browser is no longer connected, so lines 1123-1129 do nothing
Launched(k) ==
    /\ UNCHANGED <<qvars, cvars>>
    /\ initializing[k] > 0
    /\ ApplyB(Launch(BState))
    /\ initializing' = [initializing EXCEPT ![k] = @ - 1]
    /\ UNCHANGED <<bmActiveRequests, pc, leftPage, afterShutdown,
                   pagePoolDraining, isShuttingDown, sd, shutdownCalls>>

\* pool.clear(): the idle resources S of a pool are destroyed (the context
\* is closed, lines 291-297 and 192-197) and leave the pool
RECURSIVE DestroyAll(_, _)
DestroyAll(b, S) ==
    IF S = {} THEN b
    ELSE DestroyAll(Forget(CloseContext(b, Min(S)), Min(S)), S \ {Min(S)})

\* the guard of shutdown (line 1029)
AlreadyShuttingDown_never == FALSE
AlreadyShuttingDown == isShuttingDown

\* shutdown (lines 1028-1052): a call made while or after another returns
\* at once; the first sets the flag, clears pagesPerContext and calls
\* contextPool.drain()
shutdown ==
    /\ UNCHANGED <<qvars, cvars>>
    /\ shutdownCalls < MaxShutdownCalls
    /\ shutdownCalls' = shutdownCalls + 1
    /\ IF AlreadyShuttingDown
       THEN UNCHANGED <<ctxSt, ctxPool, ctxLoan, pagesPerContext, ppOpen, context, page,
                        pageOpen, hasHandler, reusingPage, latePending, lateOpen, connected,
                        poolDraining, totalPagesProcessed, timers, isShuttingDown, sd>>
       ELSE /\ isShuttingDown' = TRUE
            /\ sd' = "drainCtx"
            /\ ApplyB([BState EXCEPT !.ppc = [x \in Ctx |-> 0], !.poolDraining = TRUE])
    /\ UNCHANGED <<bmActiveRequests, pc, leftPage, afterShutdown, pagePoolDraining, initializing>>

\* contexts still on loan from the pool whose drain() shutdown awaits
DrainAwaits ==
    {x \in Ctx : /\ ctxLoan[x] = "borrowed"
                 /\ ctxPool[x] = IF poolDraining THEN "contextPool" ELSE "replaced"}

\* shutdown (lines 1053-1060): drain() resolved, every loan being returned;
\* this.contextPool.clear(), then pagePool.drain()
ShutdownPoolDrained ==
    /\ UNCHANGED <<qvars, cvars>>
    /\ sd = "drainCtx"
    /\ DrainAwaits = {}
    /\ ApplyB(DestroyAll(BState, IdleContexts(BState)))
    /\ pagePoolDraining' = TRUE
    /\ sd' = "drainPages"
    /\ UNCHANGED <<bmActiveRequests, pc, leftPage, afterShutdown,
                   initializing, isShuttingDown, shutdownCalls>>

\* shutdown (lines 1060-1069): the page pool's drain() resolved;
\* pagePool.clear(), browser.close(), this.browser = null
ShutdownPagesDrained ==
    /\ UNCHANGED <<qvars, cvars>>
    /\ sd = "drainPages"
    /\ \A x \in Ctx : ctxPool[x] = "pagePool" => ctxLoan[x] # "borrowed"
    /\ ApplyB(CloseBrowser(DestroyAll(BState, IdlePages(BState))))
    /\ sd' = "done"
    /\ UNCHANGED <<bmActiveRequests, pc, leftPage, afterShutdown,
                   pagePoolDraining, initializing, isShuttingDown, shutdownCalls>>

\* the catch of shutdown (lines 1072-1075): the error is logged and thrown
\* again; what shutdown has come to after a step failed
Rethrow_swallow(step) == "done"
Rethrow(step) == "threw"

\* shutdown (lines 1047-1075): contextPool.drain() or clear() rejects, or
\* pagePool.drain(), clear() or browser.close() does
ShutdownStepFails ==
    /\ UNCHANGED <<qvars, rvars, wvars, kvars, mvars, hvars, crawlRoots, cancelAt, pvars, uvars>>
    /\ sd \in {"drainCtx", "drainPages"}
    /\ sd' = Rethrow(sd)
    /\ sdFailed' = sd
    /\ UNCHANGED <<ctxSt, ctxPool, ctxLoan, pagesPerContext, ppOpen, bmActiveRequests,
                   pc, context, page, pageOpen, hasHandler, reusingPage, latePending,
                   lateOpen, leftPage, connected, poolDraining, pagePoolDraining,
                   totalPagesProcessed, timers, initializing, isShuttingDown,
                   shutdownCalls, afterShutdown>>

TimerKinds == {"restart", "recover"}

\* the state initializeAsync (lines 122-199) leaves: the context pool
\* started with MIN_CONTEXTS idle contexts, the page pool with its min of
\* one page in a context of its own; n calls of withPage will be made
InitBn(n) ==
    /\ ctxSt = [x \in Ctx |-> IF x <= MIN_CONTEXTS + 1 THEN "open" ELSE "free"]
    /\ ctxPool = [x \in Ctx |-> IF x <= MIN_CONTEXTS THEN "contextPool"
                               ELSE IF x = MIN_CONTEXTS + 1 THEN "pagePool" ELSE "none"]
    /\ ctxLoan = [x \in Ctx |-> IF x <= MIN_CONTEXTS + 1 THEN "idle" ELSE "none"]
    /\ pagesPerContext = [x \in Ctx |-> IF x = MIN_CONTEXTS + 1 THEN 1 ELSE 0]
    /\ ppOpen = [x \in Ctx |-> x = MIN_CONTEXTS + 1]
    /\ bmActiveRequests = 0
    /\ pc = [c \in Callers |-> IF c <= n THEN "idle" ELSE "unused"]
    /\ context = [c \in Callers |-> 0]
    /\ page = [c \in Callers |-> 0]
    /\ pageOpen = [c \in Callers |-> FALSE]
    /\ hasHandler = [c \in Callers |-> FALSE]
    /\ reusingPage = [c \in Callers |-> FALSE]
    /\ latePending = [x \in Ctx |-> 0]
    /\ lateOpen = [x \in Ctx |-> 0]
    /\ leftPage = [c \in Callers |-> FALSE]
    /\ connected = TRUE
    /\ poolDraining = FALSE
    /\ pagePoolDraining = FALSE
    /\ totalPagesProcessed = 0
    /\ timers = [k \in TimerKinds |-> 0]
    /\ initializing = [k \in TimerKinds |-> 0]
    /\ isShuttingDown = FALSE
    /\ sd = "idle"
    /\ shutdownCalls = 0
    /\ afterShutdown = [c \in Callers |-> FALSE]

InitB == InitBn(NumCallers)

\* withPage and the memory-driven cleanup
NextB ==
    \/ \E c \in Callers : StartPooled(c)
    \/ \E c \in Callers : StartFresh(c)
    \/ \E c \in Callers : AcquireContext(c)
    \/ \E c \in Callers : AcquireFails(c)
    \/ \E c \in Callers : NewPageOk(c)
    \/ \E c \in Callers : NewPageRouteFails(c)
    \/ \E c \in Callers : NewPageTimeout(c)
    \/ \E c \in Callers : NewPageThrows(c)
    \/ \E x \in Ctx : LatePage(x)
    \/ \E c \in Callers : FnSucceeds(c)
    \/ \E c \in Callers : FnFails(c)
    \/ ReleaseUnused
    \/ forceCleanupAndRestart

\* the same for no more calls than the context pool has contexts:
\* contextPool.acquire() does not time out
NextF ==
    \/ \E c \in Callers : StartPooled(c)
    \/ \E c \in Callers : StartFresh(c)
    \/ \E c \in Callers : AcquireContext(c)
    \/ \E c \in Callers : NewPageOk(c)
    \/ \E c \in Callers : NewPageRouteFails(c)
    \/ \E c \in Callers : NewPageTimeout(c)
    \/ \E c \in Callers : NewPageThrows(c)
    \/ \E x \in Ctx : LatePage(x)
    \/ \E c \in Callers : FnSucceeds(c)
    \/ \E c \in Callers : FnFails(c)
    \/ ReleaseUnused
    \/ forceCleanupAndRestart

\* withPage, for no more calls than the context pool has contexts, and the
\* browser's life cycle: restart timers and shutdown
NextL ==
    \/ \E c \in Callers : StartPooled(c)
    \/ \E c \in Callers : StartFresh(c)
    \/ \E c \in Callers : AcquireContext(c)
    \/ \E c \in Callers : NewPageOk(c)
    \/ \E c \in Callers : NewPageRouteFails(c)
    \/ \E c \in Callers : NewPageTimeout(c)
    \/ \E c \in Callers : NewPageThrows(c)
    \/ \E x \in Ctx : LatePage(x)
    \/ \E c \in Callers : FnSucceeds(c)
    \/ \E c \in Callers : FnFails(c)
    \/ \E k \in TimerKinds : TimerFires(k)
    \/ \E k \in TimerKinds : Launched(k)
    \/ shutdown
    \/ ShutdownPoolDrained
    \/ ShutdownPagesDrained

(***************************************************************************)
(* processWithRetry (processLinks.ts lines 346-376), one call              *)
(***************************************************************************)
RECURSIVE Pow2(_)
\* Math.pow(2, n)
Pow2(n) == IF n = 0 THEN 1 ELSE 2 * Pow2(n - 1)

Min2(a, b) == IF a < b THEN a ELSE b

\* line 366: Math.min(1000 * Math.pow(2, attempt - 1), 5000)
backoffMs_nocap(a) == 1000 * Pow2(a - 1)
backoffMs(a) == Min2(1000 * Pow2(a - 1), 5000)

\* line 364: only retry if attempts are left
HasAttemptsLeft(a, m) == a <= m

\* line 353: the loop condition
LoopContinues(a, m) == a <= m + 1

\* errors processUrl can reject with
AttemptErrors == {"navFailed", "pageCreationTimeout"}

\* lines 346-358: the call; the first attempt starts if the loop is entered,
\* else line 375 throws lastError || new Error(...)
processWithRetry ==
    /\ UNCHANGED <<qvars, bvars, wvars, xvars>>
    /\ rpc = "idle"
    /\ attempt' = 1
    /\ lastError' = "null"
    /\ IF LoopContinues(1, maxRetries)
       THEN rpc' = "try" /\ tried' = tried + 1
       ELSE rpc' = "thrown" /\ tried' = tried
    /\ UNCHANGED <<maxRetries, errs, slept>>

\* lines 357-359: processUrl resolves, its result is returned
AttemptSucceeds ==
    /\ UNCHANGED <<qvars, bvars, wvars, xvars>>
    /\ rpc = "try"
    /\ rpc' = "returned"
    /\ UNCHANGED <<maxRetries, attempt, lastError, tried, errs, slept>>

\* lines 360-370 and 375: processUrl rejects with e; the backoff sleep
\* starts if attempts are left, else the loop ends and lastError is thrown
AttemptFails(e) ==
    /\ UNCHANGED <<qvars, bvars, wvars, xvars>>
    /\ rpc = "try"
    /\ lastError' = e
    /\ errs' = Append(errs, e)
    /\ IF HasAttemptsLeft(attempt, maxRetries)
       THEN /\ rpc' = "sleep"
            /\ slept' = Append(slept, backoffMs(attempt))
            /\ UNCHANGED <<attempt, tried>>
       ELSE /\ attempt' = attempt + 1
            /\ IF LoopContinues(attempt + 1, maxRetries)
               THEN rpc' = "try" /\ tried' = tried + 1
               ELSE rpc' = "thrown" /\ tried' = tried
            /\ UNCHANGED slept
    /\ UNCHANGED maxRetries

\* lines 368 and 353: the backoff timer fires, the next iteration begins
BackoffEnds ==
    /\ UNCHANGED <<qvars, bvars, wvars, xvars>>
    /\ rpc = "sleep"
    /\ attempt' = attempt + 1
    /\ IF LoopContinues(attempt + 1, maxRetries)
       THEN rpc' = "try" /\ tried' = tried + 1
       ELSE rpc' = "thrown" /\ tried' = tried
    /\ UNCHANGED <<maxRetries, lastError, errs, slept>>

\* no call made yet, the call that will be made being given m \in S
InitRn(S) ==
    /\ maxRetries \in S
    /\ rpc = "idle"
    /\ attempt = 0
    /\ lastError = "null"
    /\ tried = 0
    /\ errs = <<>>
    /\ slept = <<>>

NextR ==
    \/ processWithRetry
    \/ AttemptSucceeds
    \/ \E e \in AttemptErrors : AttemptFails(e)
    \/ BackoffEnds

\* the request of the call is cancelled while the call runs: the global
\* timeout of processWebsite aborts its controller (lines 280-288), or the
\* requestTimeout timer of the queue aborts the item's (part_005 116-123).
\* processWithRetry is given neither signal (lines 299, 346-350).
Cancel ==
    /\ UNCHANGED <<qvars, bvars, rvars, wvars, kvars, mvars, hvars, crawlRoots, sdFailed, pvars, uvars>>
    /\ rpc \in {"try", "sleep"}
    /\ cancelAt = -1
    /\ cancelAt' = tried

\* processWithRetry and the cancellation of its request
NextC == NextR \/ Cancel

(***************************************************************************)
(* Strings and URLs.  A URL is the string the code handles; the operators  *)
(* below do what String and the WHATWG URL class do on strings of the form *)
(* http(s)://host[/path][#fragment] (no port, query, user info or dot      *)
(* segments), which is the form of every absolute URL of the model.        *)
(***************************************************************************)
StartsWith(s, p) == Len(p) <= Len(s) /\ SubSeq(s, 1, Len(p)) = p

\* s.replace(/^p/, '') for a literal p
DropPrefix(s, p) == IF StartsWith(s, p) THEN SubSeq(s, Len(p) + 1, Len(s)) ELSE s

\* s.replace(/\/$/, '')
DropTrailingSlash(s) ==
    IF Len(s) > 0 /\ SubSeq(s, Len(s), Len(s)) = "/" THEN SubSeq(s, 1, Len(s) - 1) ELSE s

\* s.indexOf(ch) + 1 for a single character ch (0 = not found)
IndexOf(s, ch) ==
    IF \E i \in 1..Len(s) : SubSeq(s, i, i) = ch
    THEN CHOOSE i \in 1..Len(s) :
            SubSeq(s, i, i) = ch /\ \A j \in 1..(i - 1) : SubSeq(s, j, j) # ch
    ELSE 0

\* s cut before its k-th character (k = 0: not cut)
CutBefore(s, k) ==
    IF k = 0 THEN <<s, "">> ELSE <<SubSeq(s, 1, k - 1), SubSeq(s, k, Len(s))>>

\* s cut before the first ch
SplitAt(s, ch) == CutBefore(s, IndexOf(s, ch))

UpperCase == "ABCDEFGHIJKLMNOPQRSTUVWXYZ"
LowerCase == "abcdefghijklmnopqrstuvwxyz"

\* the lower-case letter of each upper-case letter
LowerOf == [c \in {SubSeq(UpperCase, k, k) : k \in 1..26} |->
              LET k == CHOOSE k \in 1..26 : SubSeq(UpperCase, k, k) = c
              IN SubSeq(LowerCase, k, k)]

RECURSIVE toLowerCase(_)
toLowerCase(s) ==
    IF s = "" THEN ""
    ELSE LET c == SubSeq(s, 1, 1)
         IN (IF c \in DOMAIN LowerOf THEN LowerOf[c] ELSE c)
            \o toLowerCase(SubSeq(s, 2, Len(s)))

RECURSIVE trim(_)
trim(s) ==
    IF StartsWith(s, " ") THEN trim(SubSeq(s, 2, Len(s)))
    ELSE IF Len(s) > 0 /\ SubSeq(s, Len(s), Len(s)) = " " THEN trim(SubSeq(s, 1, Len(s) - 1))
    ELSE s

\* the scheme and "//" that the lower-cased beginning p of a URL shows
SchemeOf(p) ==
    IF p = "https://" THEN "https://"
    ELSE IF StartsWith(p, "http://") THEN "http://" ELSE ""

\* the scheme and "//" a special URL begins with ("" = none); matching is
\* case-insensitive as in the URL parser
Scheme(u) == SchemeOf(toLowerCase(SubSeq(u, 1, Min2(8, Len(u)))))

\* s.replace(/^https?:\/\//, '')
StripScheme(s) ==
    IF StartsWith(s, "https://") THEN DropPrefix(s, "https://") ELSE DropPrefix(s, "http://")

\* s.split('#')[0]
BeforeHash(s) == SplitAt(s, "#")[1]

\* s.split('/')[0]
BeforeSlash(s) == SplitAt(s, "/")[1]

\* the URL record of scheme sch, authority and path ap, fragment hash
UrlOf(sch, ap, hash) ==
    [ok |-> sch # "" /\ ap[1] # "",
     scheme |-> sch,
     hostname |-> toLowerCase(ap[1]),
     pathname |-> IF ap[2] = "" THEN "/" ELSE ap[2],
     hash |-> hash]

ParseRest(sch, rh) == UrlOf(sch, SplitAt(rh[1], "/"), rh[2])

ParseAfter(sch, u) == ParseRest(sch, SplitAt(SubSeq(u, Len(sch) + 1, Len(u)), "#"))

\* new URL(u) (ok: it does not throw)
ParseUrl(u) == ParseAfter(Scheme(u), u)

IsAbsolute(u) == ParseUrl(u).ok

\* new URL(u).hostname, .pathname, .href (= toString())
hostname(u) == ParseUrl(u).hostname
pathname(u) == ParseUrl(u).pathname
HrefOf(p) == p.scheme \o p.hostname \o p.pathname \o p.hash
href(u) == HrefOf(ParseUrl(u))

\* new URL(rel, base).href for parsed rel and base, rel being an absolute
\* URL or empty as the href of an anchor is ("" when the constructor throws)
ResolveParsed(r, b) ==
    IF ~b.ok THEN ""
    ELSE IF r.ok THEN HrefOf(r)
    ELSE b.scheme \o b.hostname \o b.pathname

Resolve(rel, base) == ResolveParsed(ParseUrl(rel), ParseUrl(base))

\* isSameDomain (part_005 lines 767-771), for URLs new URL accepts
isSameDomain(baseUrl, testUrl) ==
    DropPrefix(hostname(baseUrl), "www.") = DropPrefix(hostname(testUrl), "www.")

\* path.split('/').filter(segment => segment.length > 0).length
Depth(path) ==
    Cardinality({i \in 1..Len(path) :
                    SubSeq(path, i, i) # "/" /\ (i = 1 \/ SubSeq(path, i - 1, i - 1) = "/")})

\* new URL(u).toString().replace(/\/$/, '').replace(/^https?:\/\//, '').replace(/^www\./, '')
NormalizeForCompare(u) == DropPrefix(StripScheme(DropTrailingSlash(href(u))), "www.")

\* s.slice(0, n)
Take(s, n) == SubSeq(s, 1, Min2(n, Len(s)))

RECURSIVE Dedup(_)
\* [...new Set(s)]
Dedup(s) ==
    IF s = <<>> THEN <<>>
    ELSE LET d == Dedup(SubSeq(s, 1, Len(s) - 1))
         IN IF \E i \in 1..Len(d) : d[i] = s[Len(s)] THEN d ELSE Append(d, s[Len(s)])

(***************************************************************************)
(* selectBestSubpages (part_005 lines 1227-1377)                           *)
(***************************************************************************)
importantSections == <<"/about", "/products", "/services", "/faq", "/features">>

\* the default of excludePatterns (lines 860-864)
DefaultExcludePatterns ==
    <<"/login", "/signin", "/signup", "/register", "/account",
      "/privacy", "/terms", "/cookies", "/gdpr", "/contact",
      "/cart", "/checkout", "/basket", "/purchase", "/buy">>

\* number of the entries of pats that t contains
Hits(t, pats) == Cardinality({i \in 1..Len(pats) : Includes(t, toLowerCase(pats[i]))})

\* lines 1289-1313, lowerUrl being item.url.toLowerCase()
Score(lowerUrl, depth, pathLength, keywords, maxDepth) ==
    (maxDepth - depth) * 10
    + (IF 100 - pathLength > 0 THEN 100 - pathLength ELSE 0)
    + 20 * Hits(lowerUrl, keywords)
    + 15 * Hits(lowerUrl, importantSections)

\* lines 1277-1282, 1289-1314: the item of a URL of pathname path
ScoredPath(u, path, keywords, maxDepth) ==
    [url |-> u, score |-> Score(toLowerCase(u), Depth(path), Len(path), keywords, maxDepth)]

scoredUrls(depthFilteredUrls, keywords, maxDepth) ==
    [i \in 1..Len(depthFilteredUrls) |->
        ScoredPath(depthFilteredUrls[i], pathname(depthFilteredUrls[i]), keywords, maxDepth)]

RECURSIVE SortByScore(_)
\* scoredUrls.sort((a, b) => b.score - a.score): highest first, stable
SortByScore(s) ==
    IF s = <<>> THEN <<>>
    ELSE LET k == CHOOSE i \in 1..Len(s) :
                     /\ \A j \in 1..Len(s) : s[j].score <= s[i].score
                     /\ \A j \in 1..(i - 1) : s[j].score < s[i].score
         IN <<s[k]>> \o SortByScore(SubSeq(s, 1, k - 1) \o SubSeq(s, k + 1, Len(s)))

Range(s) == {s[i] : i \in 1..Len(s)}

UrlsOf(items) == [i \in 1..Len(items) |-> items[i].url]

\* line 1326
overSelectedUrls(scored, count) == UrlsOf(Take(SortByScore(scored), count * 2))

\* lines 1346-1356: the test of one URL of normalized form n
Dropped(n, normalizedMain, mainDomainCore, seen) ==
    n = normalizedMain \/ n \in seen \/ ~Includes(BeforeSlash(n), mainDomainCore)

RECURSIVE FilterMain(_, _, _, _)
\* lines 1336-1357: drop the main URL, what was seen and foreign domains
FilterMain(urls, normalizedMain, mainDomainCore, seen) ==
    IF urls = <<>> THEN <<>>
    ELSE IF Dropped(NormalizeForCompare(Head(urls)), normalizedMain, mainDomainCore, seen)
    THEN FilterMain(Tail(urls), normalizedMain, mainDomainCore, seen)
    ELSE <<Head(urls)>>
            \o FilterMain(Tail(urls), normalizedMain, mainDomainCore,
                          seen \cup {NormalizeForCompare(Head(urls))})

\* lines 1329-1334
FilterAgainst(urls, normalizedMain) ==
    FilterMain(urls, normalizedMain, BeforeSlash(normalizedMain), {})

\* lines 1365-1376: the first count unique URLs
fallbackUrls(pageUrls, baseUrl, count) ==
    Take(Dedup(SelectSeq([i \in 1..Len(pageUrls) |-> Resolve(pageUrls[i], baseUrl)],
                         LAMBDA u : u # "")),
         count)

\* lines 1242-1285: internalUrls, normalizedUrls, uniqueUrls, filteredUrls
\* and depthFilteredUrls
InternalUrls(pageUrls, baseUrl) ==
    SelectSeq(pageUrls, LAMBDA u : IsAbsolute(u) => isSameDomain(baseUrl, u))

NormalizedUrls(internalUrls, baseUrl) ==
    SelectSeq([i \in 1..Len(internalUrls) |-> BeforeHash(Resolve(internalUrls[i], baseUrl))],
              LAMBDA u : u # "")

FilteredUrls(uniqueUrls, excludePatterns) ==
    SelectSeq(uniqueUrls,
              LAMBDA u : ~\E i \in 1..Len(excludePatterns) : Includes(u, excludePatterns[i]))

DepthFilteredUrls(filteredUrls, maxDepth) ==
    SelectSeq(filteredUrls, LAMBDA u : Depth(pathname(u)) <= maxDepth)

\* lines 1287-1361, for the URLs that passed the depth filter.  The loop of
\* line 1299 throws on the first of them when keywords is no iterable (the
\* request's body giving null), and the catch answers
SelectFrom(depthFilteredUrls, pageUrls, baseUrl, count, keywords, keywordsIterable, maxDepth) ==
    IF ~keywordsIterable /\ depthFilteredUrls # <<>>
    THEN [urls |-> fallbackUrls(pageUrls, baseUrl, count), fellBack |-> TRUE]
    ELSE [urls |-> Take(FilterAgainst(overSelectedUrls(scoredUrls(depthFilteredUrls, keywords,
                                                                  maxDepth), count),
                                      NormalizeForCompare(baseUrl)),
                        count),
          fellBack |-> FALSE]

\* the result, and whether the catch block (lines 1363-1377) produced it;
\* line 1239 throws when new URL(baseUrl) does
selectBestSubpages(pageUrls, baseUrl, count, keywords, keywordsIterable, excludePatterns, maxDepth) ==
    IF ~IsAbsolute(baseUrl)
    THEN [urls |-> fallbackUrls(pageUrls, baseUrl, count), fellBack |-> TRUE]
    ELSE SelectFrom(DepthFilteredUrls(FilteredUrls(Dedup(NormalizedUrls(
                        InternalUrls(pageUrls, baseUrl), baseUrl)), excludePatterns), maxDepth),
                    pageUrls, baseUrl, count, keywords, keywordsIterable, maxDepth)

(***************************************************************************)
(* router.post('/api/processWebsite') (part_005 lines 848-1224), one       *)
(* request: root scrape, selection, fan-out of the subpages, aggregation   *)
(***************************************************************************)
Subs == 1..MaxK

\* line 943: the subpage is the main URL
IsMainUrl_never(n, m) == FALSE
IsMainUrl(n, m) == n = m

RECURSIVE KeepSubpages(_, _, _)
\* lines 934-958: drop the main URL and what was seen
KeepSubpages(urls, normalizedMain, seen) ==
    IF urls = <<>> THEN <<>>
    ELSE IF IsMainUrl(NormalizeForCompare(Head(urls)), normalizedMain)
            \/ NormalizeForCompare(Head(urls)) \in seen
    THEN KeepSubpages(Tail(urls), normalizedMain, seen)
    ELSE <<Head(urls)>> \o KeepSubpages(Tail(urls), normalizedMain,
                                        seen \cup {NormalizeForCompare(Head(urls))})

\* what the catch of processUrlBatch settles the subpage's promise with
\* (lines 1505-1516: resolve, never reject)
SubpageErrorSettles_reject == "rejected"
SubpageErrorSettles == "error"

WState == [wpc |-> wpc, promise |-> promise, scrape |-> scrape, batch |-> batch,
           response |-> response]

ApplyW(w) ==
    /\ wpc' = w.wpc
    /\ promise' = w.promise
    /\ scrape' = w.scrape
    /\ batch' = w.batch
    /\ response' = w.response

InBatch(w) == w.batch.lo..w.batch.hi

RECURSIVE Admit(_)
\* p-limit: while fewer than concurrencyLimit of the batch's functions are
\* active, the first queued one is started (lines 1465-1489): the timeout
\* timer is armed and processWithRetry is called
Admit(w) ==
    LET active == {i \in InBatch(w) : w.promise[i] = "pending"}
        queued == {i \in InBatch(w) : w.promise[i] = "queued"}
    IN IF Cardinality(active) < MAX_CONCURRENT_SUBPAGE_REQUESTS /\ queued # {}
       THEN Admit([w EXCEPT !.promise[Min(queued)] = "pending",
                            !.scrape[Min(queued)] = "running"])
       ELSE w

\* lines 1390-1401: everything at once when urls.length <= concurrencyLimit,
\* else batches of min(concurrencyLimit * 2, urls.length)
batchSize(n) ==
    IF n <= MAX_CONCURRENT_SUBPAGE_REQUESTS THEN n
    ELSE Min2(MAX_CONCURRENT_SUBPAGE_REQUESTS * 2, n)

\* processUrlBatch is called for the URLs lo.. of the n (lines 1408-1411,
\* 1465-1467): each is handed to the limiter
BeginBatch(w, lo, n) ==
    LET hi == Min2(lo + batchSize(n) - 1, n)
    IN Admit([w EXCEPT !.batch = [lo |-> lo, hi |-> hi],
                       !.promise = [i \in Subs |-> IF i \in lo..hi THEN "queued" ELSE @[i]]])

RECURSIVE DedupFinal(_, _)
\* lines 1134-1146: the filter on seenFinalUrls
DedupFinal(urls, seen) ==
    IF urls = <<>> THEN <<>>
    ELSE LET n == NormalizeForCompare(Head(urls))
         IN IF n \in seen THEN DedupFinal(Tail(urls), seen)
            ELSE <<Head(urls)>> \o DedupFinal(Tail(urls), seen \cup {n})

\* lines 1047, 1133-1151: the successful subpages, deduplicated by
\* normalized URL, as {url, title, success: true}
simplifiedSubpages(w, urls) ==
    LET successful == SelectSeq([i \in 1..Len(urls) |-> i], LAMBDA i : w.promise[i] = "ok")
        kept == DedupFinal([j \in 1..Len(successful) |-> urls[successful[j]]], {})
    IN [j \in 1..Len(kept) |-> [url |-> kept[j], success |-> TRUE]]

\* lines 1046-1050, 1154-1188: the aggregated result is sent
Respond(w, urls) ==
    [w EXCEPT !.wpc = "responded",
              !.response = [status |-> "success",
                            subpages |-> simplifiedSubpages(w, urls),
                            subpagesSelected |-> Len(urls),
                            subpagesProcessed |->
                                Cardinality({i \in 1..Len(urls) : w.promise[i] = "ok"}),
                            subpagesFailed |->
                                Cardinality({i \in 1..Len(urls) : w.promise[i] # "ok"})]]

\* lines 1203-1218: the catch of the handler sends the error response
RespondError(w) ==
    [w EXCEPT !.wpc = "responded",
              !.response = [status |-> "error", subpages |-> <<>>, subpagesSelected |-> 0,
                            subpagesProcessed |-> 0, subpagesFailed |-> 0]]

\* what follows the settlement of a subpage's promise: p-limit starts the
\* next queued function; Promise.all (line 1522) rejects with a rejection
\* and resolves once every promise of the batch has; then the next batch
\* begins (lines 1405-1412) or the handler aggregates and responds
AfterSettlement(w, urls) ==
    IF \E i \in InBatch(w) : w.promise[i] = "rejected" THEN RespondError(w)
    ELSE IF \E i \in InBatch(w) : w.promise[i] \in {"queued", "pending"} THEN w
    ELSE IF w.batch.hi < Len(urls) THEN BeginBatch(w, w.batch.hi + 1, Len(urls))
    ELSE Respond(w, urls)

Continue(w, urls) == AfterSettlement(Admit(w), urls)

\* what the request's body may hold for keywords: an array, or null
KeywordOptions ==
    {[iterable |-> TRUE, list |-> <<>>],
     [iterable |-> TRUE, list |-> <<"Products">>],
     [iterable |-> FALSE, list |-> <<>>]}

RequestUrls == {"https://site.com", " HTTPS://WWW.Site.com/ "}

\* lines 848-890: a request arrives; the URL is trimmed and lower-cased and
\* the root scrape begins
processWebsite ==
    /\ UNCHANGED <<qvars, bvars, rvars, xvars>>
    /\ wpc = "idle"
    /\ \E u \in RequestUrls, k \in 0..MaxK, kw \in KeywordOptions, d \in {1, 2} :
          req' = [formattedUrl |-> toLowerCase(trim(u)), subpagesCount |-> k,
                  keywords |-> kw.list, keywordsIterable |-> kw.iterable,
                  excludePatterns |-> DefaultExcludePatterns, maxDepth |-> d]
    /\ wpc' = "root"
    /\ UNCHANGED <<mainPageResult, mainPageUrls, selected, filtered, promise, scrape, batch,
                   response>>

\* lines 887, 1203-1218: processWithRetry throws for the root
RootFails ==
    /\ UNCHANGED <<qvars, bvars, rvars, xvars>>
    /\ wpc = "root"
    /\ ApplyW(RespondError(WState))
    /\ UNCHANGED <<req, mainPageResult, mainPageUrls, selected, filtered>>

\* page_urls a root scrape may return (a.href of the page's anchors):
\* the candidates of the specification's example; the root under other
\* spellings; one page under several spellings; pages of another host, on
\* the exclude list and too deep; none
RootPageUrls ==
    { <<"https://site.com/about", "https://site.com/privacy", "https://site.com/products/x",
        "https://site.com/products/x/y/z", "https://site.com/cart", "https://site.com/features">>,
      <<"https://www.site.com/", "http://site.com", "https://site.com/#top",
        "https://site.com/about">>,
      <<"https://site.com/about", "https://site.com/about/", "https://www.site.com/about#team",
        "https://site.com/features">>,
      <<"https://site.com.evil.io/about", "https://site.com/login", "https://site.com/a/b/c",
        "https://site.com/faq">>,
      <<>> }

\* lines 887-1044: the root scrape resolves with page_urls p; the subpages
\* are selected and filtered and the fan-out begins (with no subpage it is
\* over at once)
RootSucceeds ==
    /\ UNCHANGED <<qvars, bvars, rvars, xvars>>
    /\ wpc = "root"
    /\ \E p \in RootPageUrls :
          /\ mainPageUrls' = p
          /\ selected' = selectBestSubpages(p, req.formattedUrl, req.subpagesCount,
                                            req.keywords, req.keywordsIterable,
                                            req.excludePatterns, req.maxDepth)
    /\ filtered' = KeepSubpages(selected'.urls, NormalizeForCompare(req.formattedUrl), {})
    /\ ApplyW(IF filtered' = <<>> THEN Respond(WState, filtered')
              ELSE BeginBatch([WState EXCEPT !.wpc = "fanout"], 1, Len(filtered')))
    /\ mainPageResult' = "ok"
    /\ UNCHANGED req

\* lines 1490-1504: processWithRetry resolves before the timeout
SubSucceeds(i) ==
    /\ UNCHANGED <<qvars, bvars, rvars, xvars>>
    /\ promise[i] = "pending"
    /\ ApplyW(Continue([WState EXCEPT !.promise[i] = "ok", !.scrape[i] = "ok"], filtered))
    /\ UNCHANGED <<req, mainPageResult, mainPageUrls, selected, filtered>>

\* lines 1505-1517: processWithRetry throws before the timeout
SubFails(i) ==
    /\ UNCHANGED <<qvars, bvars, rvars, xvars>>
    /\ promise[i] = "pending"
    /\ ApplyW(Continue([WState EXCEPT !.promise[i] = SubpageErrorSettles,
                                      !.scrape[i] = "failed"], filtered))
    /\ UNCHANGED <<req, mainPageResult, mainPageUrls, selected, filtered>>

\* lines 1476-1485: the timeout timer fires first and resolves the promise;
\* processWithRetry goes on
SubTimeout(i) ==
    /\ UNCHANGED <<qvars, bvars, rvars, xvars>>
    /\ promise[i] = "pending"
    /\ ApplyW(Continue([WState EXCEPT !.promise[i] = "timeout"], filtered))
    /\ UNCHANGED <<req, mainPageResult, mainPageUrls, selected, filtered>>

\* resolve(value) of the promise made at line 1467, called at 1479, 1497 or
\* 1511: the first call settles the promise, a later call does nothing.
\* A promise of the fan-out is unsettled while it is "queued" or "pending".
Resolved_last(old, new) == new
Resolved(old, new) == IF old \in {"queued", "pending"} THEN new ELSE old

\* lines 1490-1516: processWithRetry settles after the timeout resolved the
\* promise; resolve() has no effect any more
LateSettles(i) ==
    /\ UNCHANGED <<qvars, bvars, rvars, xvars>>
    /\ promise[i] = "timeout"
    /\ scrape[i] = "running"
    /\ \E r \in {"ok", "failed"} :
          /\ scrape' = [scrape EXCEPT ![i] = r]
          /\ promise' = [promise EXCEPT
                            ![i] = Resolved(@, IF r = "ok" THEN "ok" ELSE SubpageErrorSettles)]
    /\ UNCHANGED <<req, wpc, mainPageResult, mainPageUrls, selected, filtered, batch,
                   response>>

\* no request yet
InitW ==
    /\ req = [formattedUrl |-> "", subpagesCount |-> 0, keywords |-> <<>>,
              keywordsIterable |-> TRUE, excludePatterns |-> <<>>, maxDepth |-> 0]
    /\ wpc = "idle"
    /\ mainPageResult = "null"
    /\ mainPageUrls = <<>>
    /\ selected = [urls |-> <<>>, fellBack |-> FALSE]
    /\ filtered = <<>>
    /\ promise = [i \in Subs |-> "none"]
    /\ scrape = [i \in Subs |-> "none"]
    /\ batch = [lo |-> 1, hi |-> 0]
    /\ response = [status |-> "none", subpages |-> <<>>, subpagesSelected |-> 0,
                   subpagesProcessed |-> 0, subpagesFailed |-> 0]

NextW ==
    \/ processWebsite
    \/ RootFails
    \/ RootSucceeds
    \/ \E i \in Subs : SubSucceeds(i)
    \/ \E i \in Subs : SubFails(i)
    \/ \E i \in Subs : SubTimeout(i)
    \/ \E i \in Subs : LateSettles(i)

(***************************************************************************)
(* The links of a page: processUrl (processLinks.ts lines 440-484,         *)
(* 777-833) and their merge by processWebsite (part_005 lines 968-1130)    *)
(***************************************************************************)
\* the patterns of socialPlatforms (lines 441-450)
socialPatterns ==
    <<"twitter.com", "t.co", "facebook.com", "fb.com", "instagram.com", "linkedin.com",
      "youtube.com", "tiktok.com", "reddit.com", "github.com">>

\* lines 454-458: the filter of socialData
IsSocial(url) == \E i \in 1..Len(socialPatterns) : Includes(url, socialPatterns[i])

\* line 480: type of a link of a page of origin o
linkType(url, o) == IF StartsWith(url, o) THEN "internal" ELSE "external"

\* lines 476-484: allLinksData
allLinksData(anchors, o) ==
    LET http == SelectSeq(anchors, LAMBDA u : u # "" /\ StartsWith(u, "http"))
    IN [i \in 1..Len(http) |-> [url |-> http[i], type |-> linkType(http[i], o)]]

\* allLinksData.filter(link => link.type === t).slice(0, 50).map(link => link.url)
LinksOfType(data, t) == UrlsOf(Take(SelectSeq(data, LAMBDA l : l.type = t), 50))

\* lines 777-816: allUrls (the URLs of page_urls, social_urls, external_urls)
allUrls(anchors, o) ==
    [page_urls |-> Dedup(LinksOfType(allLinksData(anchors, o), "internal")),
     social_urls |-> Dedup(SelectSeq(anchors, IsSocial)),
     external_urls |-> Dedup(LinksOfType(allLinksData(anchors, o), "external"))]

\* part_005 lines 968-1030: the Maps filled from the main page's result,
\* the social URLs then deleted from the external ones
MainPageMaps(main) ==
    [page_urls |-> Range(main.page_urls),
     social_urls |-> Range(main.social_urls),
     external_urls |-> Range(main.external_urls) \ Range(main.social_urls)]

\* part_005 lines 1052-1128: the URLs of a successful subpage are added to
\* the Maps that have not got them
AddSubpage(maps, sub) ==
    [page_urls |-> maps.page_urls \cup Range(sub.page_urls),
     social_urls |-> maps.social_urls \cup Range(sub.social_urls),
     external_urls |-> maps.external_urls \cup Range(sub.external_urls)]

\* the origin of the scraped pages
PageOrigin == "https://site.com"

AllAnchors ==
    <<"https://twitter.com/x", "https://blog.example.com", "https://site.com/about",
      "https://github.com/org">>

\* the anchors a page may have
AnchorLists == {SelectSeq(AllAnchors, LAMBDA u : u \in S) : S \in SUBSET Range(AllAnchors)}

EmptyBundle == [page_urls |-> <<>>, social_urls |-> <<>>, external_urls |-> <<>>]

\* processUrl collects the links of a page (lines 440-484, 777-833)
ScrapeLinks ==
    /\ UNCHANGED <<qvars, bvars, rvars, wvars, mvars, hvars, gvars>>
    /\ kpc = "idle"
    /\ \E a \in AnchorLists :
          /\ rootAnchors' = a
          /\ linkBundle' = allUrls(a, PageOrigin)
    /\ kpc' = "page"
    /\ UNCHANGED <<subAnchors, mergedBundle>>

\* processWebsite merges the links of the root and of a subpage that was
\* scraped (part_005 lines 968-1128)
MergeLinks ==
    /\ UNCHANGED <<qvars, bvars, rvars, wvars, mvars, hvars, gvars>>
    /\ kpc = "page"
    /\ \E b \in AnchorLists :
          /\ subAnchors' = b
          /\ mergedBundle' = AddSubpage(MainPageMaps(linkBundle), allUrls(b, PageOrigin))
    /\ kpc' = "merged"
    /\ UNCHANGED <<rootAnchors, linkBundle>>

\* no page scraped yet
InitK ==
    /\ kpc = "idle"
    /\ rootAnchors = <<>>
    /\ subAnchors = <<>>
    /\ linkBundle = EmptyBundle
    /\ mergedBundle = [page_urls |-> {}, social_urls |-> {}, external_urls |-> {}]

NextK == ScrapeLinks \/ MergeLinks

(***************************************************************************)
(* The metrics interval (browserManager.ts lines 409-467)                  *)
(***************************************************************************)
NoTick == [high |-> FALSE, gc |-> FALSE, released |-> 0, recheck |-> FALSE,
           dropped |-> FALSE, restart |-> FALSE]

\* lines 420-424: memUsageMB > criticalMemoryThresholdMB
Critical(mem) == mem > 1500

\* the callback of setInterval at a process RSS of mem MB, global.gc being
\* defined or not: above the critical threshold releaseUnusedContexts is
\* called, and only with global.gc the 2 s timer of lines 438-446 is armed;
\* above 500 MB contexts are released and nothing else
MetricsTick ==
    /\ UNCHANGED <<qvars, rvars, wvars, kvars, hvars, gvars>>
    /\ ~isShuttingDown
    /\ ~tick.recheck
    /\ timers["restart"] < MaxTimers
    /\ \E mem \in MemSamples, gc \in BOOLEAN :
          /\ ApplyB(IF mem > 500 THEN releaseUnusedContexts(BState, mem) ELSE BState)
          /\ tick' = IF Critical(mem)
                     THEN [NoTick EXCEPT
                             !.high = TRUE,
                             !.gc = gc,
                             !.released =
                                 Cardinality(LiveContexts(BState))
                                 - Cardinality(LiveContexts(releaseUnusedContexts(BState, mem))),
                             !.recheck = gc]
                     ELSE NoTick
    /\ UNCHANGED <<bmActiveRequests, pc, leftPage, afterShutdown, svars>>

\* the 2 s timer of lines 438-446 fires: with the memory still critical and
\* no context released, scheduleBackgroundBrowserRestart (1108-1112) arms
\* the restart timer
MemoryRecheck ==
    /\ UNCHANGED <<qvars, rvars, wvars, kvars, hvars, gvars>>
    /\ tick.recheck
    /\ \E stillCritical \in BOOLEAN :
          LET restart == stillCritical /\ tick.released = 0 /\ ~isShuttingDown
          IN /\ tick' = [tick EXCEPT !.recheck = FALSE, !.dropped = ~stillCritical,
                                     !.restart = restart]
             /\ timers' = IF restart THEN [timers EXCEPT !["restart"] = @ + 1] ELSE timers
    /\ UNCHANGED <<ctxSt, ctxPool, ctxLoan, pagesPerContext, ppOpen, bmActiveRequests,
                   pc, context, page, pageOpen, hasHandler, reusingPage, latePending,
                   lateOpen, leftPage, connected, poolDraining, pagePoolDraining,
                   totalPagesProcessed, initializing, isShuttingDown, sd, shutdownCalls,
                   afterShutdown>>

InitM == tick = NoTick

\* withPage, memory cleanup and the metrics interval
NextM ==
    \/ \E c \in Callers : StartPooled(c)
    \/ \E c \in Callers : StartFresh(c)
    \/ \E c \in Callers : AcquireContext(c)
    \/ \E c \in Callers : NewPageOk(c)
    \/ \E c \in Callers : NewPageRouteFails(c)
    \/ \E c \in Callers : NewPageTimeout(c)
    \/ \E c \in Callers : NewPageThrows(c)
    \/ \E x \in Ctx : LatePage(x)
    \/ \E c \in Callers : FnSucceeds(c)
    \/ \E c \in Callers : FnFails(c)
    \/ MetricsTick
    \/ MemoryRecheck

(***************************************************************************)
(* The HTTP layer: index.ts mounts the rate limiter before every route     *)
(* (line 127), permitAuth on /api/processLinks (line 130) and the crawl    *)
(* router under /process (line 159).  One request at a time is followed    *)
(* through the middleware chain.                                           *)
(***************************************************************************)
\* the x-api-key header: the three keys of the environment, or no header
ApiKeys == {"admin", "pro", "free", "none"}

\* the routes that lead to a scrape
Routes == {"/api/processLinks", "/process/api/processWebsite"}

\* a request: its key, its route, body.advanced === true, and the depth and
\* javascript options of the body (test/permit_demo.js lines 13-50)
Requests == [key : ApiKeys, route : Routes, advanced : BOOLEAN, options : {"basic", "advanced"}]

NoReq == [key |-> "none", route |-> "none", advanced |-> FALSE, options |-> "basic"]

NoLog == [limiter |-> "none", decision |-> "none", action |-> "none", quota |-> FALSE,
          enqueued |-> FALSE, scraped |-> FALSE, status |-> 0]

\* permitAuth lines 79-94: the tier of an API key
TierOf(key) ==
    CASE key = "admin" -> "admin"
      [] key = "pro"   -> "pro_user"
      [] key = "free"  -> "free_user"
      [] OTHER         -> "invalid"

\* permitAuth line 132
ActionOf(isAdvanced) == IF isAdvanced THEN "scrape_advanced" ELSE "scrape_basic"

\* permit.check as policies/scrape_policy.hcl decides it for a role, an
\* action and the resource attribute is_premium; quota: the rate_limit
\* condition of the policy holds
PermitCheck(tier, action, is_premium, quota) ==
    CASE tier = "admin"     -> action \in {"scrape_basic", "scrape_advanced",
                                           "scrape_premium", "scrape_manage"}
      [] tier = "pro_user"  -> \/ action = "scrape_basic"
                               \/ action = "scrape_advanced" /\ quota
      [] tier = "free_user" -> action = "scrape_basic" /\ quota /\ ~is_premium
      [] OTHER              -> FALSE

\* permitAuth (part_007 lines 60-178) for request r, the PDP answering or
\* not: the decision and the status it sends (0: it calls next)
permitAuthDecides(r, pdpUp, quota) ==
    IF r.key = "none" THEN [decision |-> "unauthenticated", status |-> 401]
    ELSE IF TierOf(r.key) = "invalid" THEN [decision |-> "unauthenticated", status |-> 401]
    ELSE IF ~pdpUp THEN [decision |-> "error", status |-> 500]
    ELSE IF ~PermitCheck(TierOf(r.key), ActionOf(r.advanced), r.advanced, quota)
         THEN [decision |-> "deny", status |-> 403]
    ELSE [decision |-> "allow", status |-> 0]

\* max of basicLimiter and proLimiter (part_007 lines 194, 213); maxRequests
\* and globalMaxRequests of RateLimiter (lines 271, 263)
BasicMax == 5
ProMax == 10
maxRequests == 10
globalMaxRequests == 50

Stores == {"free", "ip", "pro", "mem", "global"}

\* a counter is incremented; counts above max + 1 are not told apart
Hit(n, max) == IF n > max THEN n ELSE n + 1

\* express-rate-limit with `max`: the hit is counted, then compared
rateLimit(h, store, max) ==
    [hits |-> [h EXCEPT ![store] = Hit(@, max)], pass |-> h[store] + 1 <= max]

\* rateLimiterMiddleware of part_007 lines 231-244; a request without key
\* is counted under its IP address (keyGenerator, lines 200-203)
TieredLimiter(h, key) ==
    IF key = "admin" THEN [hits |-> h, pass |-> TRUE]
    ELSE IF key = "pro" THEN rateLimit(h, "pro", ProMax)
    ELSE rateLimit(h, IF key = "none" THEN "ip" ELSE key, BasicMax)

\* RateLimiter.isAllowed of part_007 lines 295-340, all requests coming from
\* one address: the global counter first, then the counter of the address
isAllowed(h) ==
    LET g == [h EXCEPT !["global"] = Hit(@, globalMaxRequests)]
    IN IF h["global"] + 1 > globalMaxRequests THEN [hits |-> g, pass |-> FALSE]
       ELSE rateLimit(g, "mem", maxRequests)

\* the middleware index.ts imports from './middleware/rateLimiter'
Limit(impl, h, key) == IF impl = "tiered" THEN TieredLimiter(h, key) ELSE isAllowed(h)

\* a request arrives and goes through rateLimiterMiddleware (index.ts line
\* 127): next, or 429 (part_007 lines 195-199, 401-405)
rateLimiterMiddleware ==
    /\ UNCHANGED <<qvars, bvars, rvars, wvars, kvars, mvars, gvars>>
    /\ hpc \in {"idle", "responded"}
    /\ \E r \in Requests :
          /\ hreq' = r
          /\ hits' = Limit(limiter, hits, r.key).hits
          /\ IF Limit(limiter, hits, r.key).pass
             THEN /\ hpc' = "passed"
                  /\ hlog' = [NoLog EXCEPT !.limiter = "pass"]
             ELSE /\ hpc' = "responded"
                  /\ hlog' = [NoLog EXCEPT !.limiter = "reject", !.status = 429]
    /\ UNCHANGED limiter

\* the window of a counter is over (windowMs, lines 193, 212, 271; the
\* interval of lines 279-282)
WindowReset ==
    /\ UNCHANGED <<qvars, bvars, rvars, wvars, kvars, mvars, gvars>>
    /\ \E st \in Stores :
          /\ hits[st] > 0
          /\ hits' = [hits EXCEPT ![st] = 0]
    /\ UNCHANGED <<limiter, hreq, hpc, hlog>>

\* permitAuth on /api/processLinks (index.ts line 130)
permitAuth ==
    /\ UNCHANGED <<qvars, bvars, rvars, wvars, kvars, mvars, gvars>>
    /\ hpc = "passed"
    /\ hreq.route = "/api/processLinks"
    /\ \E pdpUp \in BOOLEAN, quota \in BOOLEAN :
          /\ hlog' = [hlog EXCEPT
                        !.decision = permitAuthDecides(hreq, pdpUp, quota).decision,
                        !.action = ActionOf(hreq.advanced),
                        !.quota = quota,
                        !.status = permitAuthDecides(hreq, pdpUp, quota).status]
          /\ hpc' = IF permitAuthDecides(hreq, pdpUp, quota).status = 0
                    THEN "allowed" ELSE "responded"
    /\ UNCHANGED <<limiter, hits, hreq>>

\* the handler of /api/processLinks (processLinks.ts lines 240-300) hands
\* its task to the request queue
processLinksHandler ==
    /\ UNCHANGED <<qvars, bvars, rvars, wvars, kvars, mvars, gvars>>
    /\ hpc = "allowed"
    /\ hlog' = [hlog EXCEPT !.enqueued = TRUE]
    /\ hpc' = "enqueued"
    /\ UNCHANGED <<limiter, hits, hreq>>

\* the queue invokes the task, which calls processWithRetry (lines 292-300)
TaskRuns ==
    /\ UNCHANGED <<qvars, bvars, rvars, wvars, kvars, mvars, gvars>>
    /\ hpc = "enqueued"
    /\ hlog' = [hlog EXCEPT !.scraped = TRUE]
    /\ hpc' = "scraping"
    /\ UNCHANGED <<limiter, hits, hreq>>

\* the handler of /api/processWebsite, mounted under /process (index.ts
\* line 159), calls processWithRetry itself (part_005 lines 849-888)
processWebsiteHandler ==
    /\ UNCHANGED <<qvars, bvars, rvars, wvars, kvars, mvars, gvars>>
    /\ hpc = "passed"
    /\ hreq.route = "/process/api/processWebsite"
    /\ hlog' = [hlog EXCEPT !.scraped = TRUE]
    /\ hpc' = "scraping"
    /\ UNCHANGED <<limiter, hits, hreq>>

\* the scrape settles and the handler answers
ScrapeSettles ==
    /\ UNCHANGED <<qvars, bvars, rvars, wvars, kvars, mvars, gvars>>
    /\ hpc = "scraping"
    /\ \E st \in {200, 500} : hlog' = [hlog EXCEPT !.status = st]
    /\ hpc' = "responded"
    /\ UNCHANGED <<limiter, hits, hreq>>

\* the server as started, with one of the rate limiters in impls mounted
InitHn(impls) ==
    /\ limiter \in impls
    /\ hits = [st \in Stores |-> 0]
    /\ hreq = NoReq
    /\ hpc = "idle"
    /\ hlog = NoLog

InitH == InitHn({"tiered"})

NextH ==
    \/ rateLimiterMiddleware
    \/ WindowReset
    \/ permitAuth
    \/ processLinksHandler
    \/ TaskRuns
    \/ processWebsiteHandler
    \/ ScrapeSettles

(***************************************************************************)
(* Crawl roots next to the request queue: the handler of                   *)
(* /api/processWebsite awaits processWithRetry for the root page without   *)
(* the queue (part_005 lines 885-888)                                      *)
(***************************************************************************)
CrawlRootStarts ==
    /\ UNCHANGED <<qvars, bvars, rvars, wvars, kvars, mvars, hvars>>
    /\ crawlRoots < NumCrawls
    /\ crawlRoots' = crawlRoots + 1
    /\ UNCHANGED <<sdFailed, cancelAt, pvars, uvars>>

CrawlRootSettles ==
    /\ UNCHANGED <<qvars, bvars, rvars, wvars, kvars, mvars, hvars>>
    /\ crawlRoots > 0
    /\ crawlRoots' = crawlRoots - 1
    /\ UNCHANGED <<sdFailed, cancelAt, pvars, uvars>>

(***************************************************************************)
(* permitAuth under concurrent requests (part_007 lines 60-178).  The PDP  *)
(* keeps one user per user key; syncUser replaces the user's attributes    *)
(* and permit.check is given the user key only, so it decides on the       *)
(* attributes the PDP holds when it is asked.                              *)
(***************************************************************************)
\* the number of permitAuth calls in flight together
NumAuthCalls == 2

AuthCalls == 1..NumAuthCalls

\* the keys permitAuth accepts (lines 79-94)
ValidKeys == {"admin", "pro", "free"}

\* lines 79-94: the Permit user key of an API key
UserKeyOf(key) == IF key = "admin" THEN "2025DEVChallenge_admin" ELSE "2025DEVChallenge_user"

UserKeys == {"2025DEVChallenge_admin", "2025DEVChallenge_user"}

NoAuth == [key |-> "none", advanced |-> FALSE, pc |-> "idle", quota |-> FALSE, decision |-> "none"]

\* permitAuth from its start to the end of `await permit.api.syncUser(user)`
\* (lines 60-121): the PDP now holds the tier of this request's key under
\* the user key
permitAuthSyncs(r) ==
    /\ UNCHANGED <<qvars, bvars, rvars, wvars, kvars, mvars, hvars, ovars, pvars>>
    /\ auth[r].pc = "idle"
    /\ \E key \in ValidKeys, isAdvanced \in BOOLEAN :
          /\ auth' = [auth EXCEPT ![r] = [@ EXCEPT !.key = key, !.advanced = isAdvanced,
                                                   !.pc = "synced"]]
          /\ pdpTier' = [pdpTier EXCEPT ![UserKeyOf(key)] = TierOf(key)]

\* permitAuth from permit.check on (lines 123-160): the PDP decides for the
\* user key, on the tier it holds for it
permitAuthChecks(r) ==
    /\ UNCHANGED <<qvars, bvars, rvars, wvars, kvars, mvars, hvars, ovars, pvars>>
    /\ auth[r].pc = "synced"
    /\ \E quota \in BOOLEAN :
          auth' = [auth EXCEPT ![r] =
             [@ EXCEPT !.pc = "done",
                       !.quota = quota,
                       !.decision =
                          IF PermitCheck(pdpTier[UserKeyOf(auth[r].key)],
                                         ActionOf(auth[r].advanced),
                                         auth[r].advanced, quota)
                          THEN "allow" ELSE "deny"]]
    /\ UNCHANGED pdpTier

NextA ==
    \/ \E r \in AuthCalls : permitAuthSyncs(r)
    \/ \E r \in AuthCalls : permitAuthChecks(r)

InitP == responses = [i \in Items |-> 0]

InitU ==
    /\ pdpTier = [u \in UserKeys |-> "none"]
    /\ auth = [r \in AuthCalls |-> NoAuth]

InitG == crawlRoots = 0 /\ sdFailed = "none" /\ cancelAt = -1 /\ InitP /\ InitU

NextG ==
    \/ NextQ
    \/ CrawlRootStarts
    \/ CrawlRootSettles

\* the crawler and the server at rest
InitX == InitK /\ InitM /\ InitH /\ InitG

InitC0 == InitRn({MAX_RETRIES}) /\ InitW /\ InitX

Init == InitQ /\ InitB /\ InitC0

SpecB == Init /\ [][NextB]_vars

InitFew == InitQ /\ InitBn(NumFewCallers) /\ InitC0

SpecF == InitFew /\ [][NextF]_vars

SpecL == InitFew /\ [][NextL]_vars

InitSolo == InitQ /\ InitBn(NumSoloCallers) /\ InitC0

SpecS == InitSolo /\ [][NextL]_vars

SpecQ == Init /\ [][NextQ]_vars

\* Fairness for the liveness claims: while a task is running, some running
\* task does settle.  Timers are not assumed to fire.
TaskSettles == \E i \in Items : TaskSucceeds(i) \/ TaskFails(i)
InitLive == InitQn(NumLiveItems) /\ InitB /\ InitC0
InitRetry == InitQ /\ InitB /\ InitRn(0..MaxMaxRetries) /\ InitW /\ InitX

SpecR == InitRetry /\ [][NextR]_vars

SpecW == Init /\ [][NextW]_vars

SpecK == Init /\ [][NextK]_vars

SpecM == InitFew /\ [][NextM]_vars

InitHttp ==
    /\ InitQ /\ InitB /\ InitRn({MAX_RETRIES}) /\ InitW /\ InitK /\ InitM /\ InitG
    /\ InitHn({"tiered", "memory"})

SpecH == InitHttp /\ [][NextH]_vars

SpecG == Init /\ [][NextG]_vars

\* permitAuth calls in flight together
SpecA == Init /\ [][NextA]_vars

\* the queue with NumLiveItems calls of enqueue
SpecQ3 == InitLive /\ [][NextQ]_vars

SpecC == InitRetry /\ [][NextC]_vars

\* the browser's life cycle with a shutdown that can fail
NextD == NextL \/ ShutdownStepFails

SpecD == InitSolo /\ [][NextD]_vars

SpecQFair == InitLive /\ [][NextQ]_vars /\ WF_vars(TaskSettles)

(***************************************************************************)
(* Claims about RequestQueue                                               *)
(***************************************************************************)
Running == {i \in Items : phase[i] = "running"}
InQueue(i) == \E k \in 1..Len(queue) : queue[k] = i
ErrKind(o) == IF o \in {"pending", "resolved"} THEN o ELSE parseError(o)

\* C1: the number of items whose task has been invoked and has not settled
\* is activeRequests and never exceeds maxConcurrent; an Enqueue dispatches
\* its item at once only if in-flight < maxConcurrent before the call, and
\* otherwise leaves the item waiting at the tail of the queue.
C1_EnqueueStep ==
    \A i \in Items :
        (phase[i] = "idle" /\ phase'[i] # "idle") =>
            /\ phase'[i] = "running" => activeRequests < maxConcurrent
            /\ activeRequests >= maxConcurrent =>
                  (phase'[i] = "waiting" /\ queue' = Append(queue, i))
C1_AdmissionBound ==
    /\ [](Cardinality(Running) <= maxConcurrent /\ activeRequests = Cardinality(Running))
    /\ [][C1_EnqueueStep]_vars
C1_Witness ==
    /\ activeRequests = maxConcurrent
    /\ Len(queue) = 2
    /\ queue[2] = NumItems

\* C2: tasks are invoked in the order of their Enqueue calls (ids are given
\* out in that order); completion order is free.
C2_FifoStart ==
    \A a, b \in 1..Len(startOrder) : a < b => startOrder[a] < startOrder[b]
C2_Witness ==
    \E i, j \in Items :
        /\ i < j
        /\ phase[i] = "running"
        /\ phase[j] = "done"
        /\ Len(startOrder) = NumItems

\* C3 (as claimed): an item whose cancellation fired while it waited is never
\* invoked, and its Enqueue fails with a Cancelled error.
C3_CancelledNeverInvoked ==
    \A i \in Items :
        abortedWaiting[i] =>
            /\ invoked[i] = 0
            /\ outcome[i] # "pending" => ErrKind(outcome[i]) = "CANCELLED"

\* C4 (as claimed): an item removed by the queue-timeout handler fails with
\* kind QUEUE_TIMEOUT (429), distinct from the execution-deadline kind.
C4_QueueTimeoutKind ==
    \A i \in Items :
        phase[i] = "removed" =>
            /\ ErrKind(outcome[i]) = "QUEUE_TIMEOUT"
            /\ statusCodeMap(ErrKind(outcome[i])) = 429
            /\ ErrKind(outcome[i]) # ErrKind("requestTimeout")

\* C5: when a dispatched task settles, in-flight drops by exactly one and the
\* head of a non-empty queue is dispatched in the same step; so, tasks
\* settling, whenever items wait or run the queue eventually is empty (every
\* waiting item was dispatched or timed out) with in-flight back at 0.
C5_SettleStep ==
    \A i \in Items :
        (phase[i] = "running" /\ phase'[i] = "done") =>
            IF queue = <<>>
            THEN activeRequests' = activeRequests - 1 /\ queue' = queue
            ELSE /\ activeRequests' = activeRequests
                 /\ phase'[Head(queue)] = "running"
                 /\ queue' = Tail(queue)
C5_SettleAndDrain ==
    /\ [][C5_SettleStep]_vars
    /\ (queue # <<>> \/ activeRequests > 0) ~> (queue = <<>> /\ activeRequests = 0)
C5_Witness ==
    /\ Len(startOrder) = NumLiveItems
    /\ \A i \in 1..NumLiveItems : phase[i] = "done"
    /\ activeRequests = 0

(***************************************************************************)
(* Claims about BrowserManager                                             *)
(***************************************************************************)
\* the withPage calls that have started and not settled
InWithPage == {c \in Callers : pc[c] \in {"getCtx", "newPage", "fn"}}

\* the contexts call c holds: the one it acquired from the context pool and
\* the one of the pooled page it borrowed (its locals are null once it settled)
Holds(c) == {x \in Ctx : context[c] = x \/ page[c] = x}

\* contexts on loan from a context pool to no call
Leaked ==
    {x \in Ctx : /\ ctxPool[x] \in {"contextPool", "replaced"}
                 /\ ctxLoan[x] = "borrowed"
                 /\ \A c \in Callers : context[c] # x}

\* C6 (as claimed): when a withPage call has settled, every page it created
\* or borrowed is closed or back in the page pool, on every exit path, the
\* page whose creation completes after the PAGE_TIMEOUT race was lost
\* included.
C6_PagesCleanedUp ==
    /\ \A c \in Callers : pc[c] = "done" => ~leftPage[c]
    /\ \A x \in Ctx : lateOpen[x] = 0

\* C7 (as claimed): when a withPage call that acquired a context has
\* settled, the context is no longer on loan (it went back to the current
\* pool) and activeRequests was decremented exactly once, so that with all
\* calls settled activeRequests and the borrowed count are back at 0; also
\* when resetContextPool replaced the pool during the call.
C7_ContextReleased ==
    /\ bmActiveRequests = Cardinality(InWithPage)
    /\ Leaked = {}
    /\ InWithPage = {} => \A x \in Ctx : ctxPool[x] = "contextPool" => ctxLoan[x] # "borrowed"

\* C8 (as claimed): at every instant the browser contexts leased to withPage
\* calls number at most MAX_CONTEXTS.
C8_LeasedAtMostMax ==
    Cardinality(UNION {Holds(c) : c \in Callers}) <= MAX_CONTEXTS

\* C9: a browser context is held by at most one withPage call at a time, so
\* no two running bodies work on pages of the same context; and no call
\* holds more than one context.
C9_ExclusiveContext ==
    /\ \A c \in Callers : Cardinality(Holds(c)) <= 1
    /\ \A c, d \in Callers : c # d => Holds(c) \cap Holds(d) = {}
    /\ \A c, d \in Callers : (c # d /\ pc[c] = "fn" /\ pc[d] = "fn") => page[c] # page[d]
C9_Witness ==
    \E d, e \in Callers :
        /\ d # e
        /\ pc[d] = "fn" /\ pc[e] = "fn"
        /\ ~reusingPage[d] /\ ~reusingPage[e]
        /\ pageOpen[d] /\ pageOpen[e]
        /\ context[d] # 0 /\ context[e] # 0

\* C10 (as claimed): the number of live contexts is always at least
\* MIN_CONTEXTS and at most MAX_CONTEXTS (a restart is one step here, so no
\* state lies inside one); releaseUnusedContexts and cleanupPage never
\* leave fewer than MIN_CONTEXTS live contexts.
C10_LiveContextsInRange ==
    /\ Cardinality(LiveContexts(BState)) >= MIN_CONTEXTS
    /\ Cardinality(LiveContexts(BState)) <= MAX_CONTEXTS

(***************************************************************************)
(* Claims about the browser's life cycle                                   *)
(***************************************************************************)
\* every variable but the count of shutdown() calls
allButShutdownCalls ==
    <<qvars, ctxSt, ctxPool, ctxLoan, pagesPerContext, ppOpen, bmActiveRequests,
      pc, context, page, pageOpen, hasHandler, reusingPage, latePending, lateOpen,
      leftPage, connected, poolDraining, pagePoolDraining, totalPagesProcessed,
      timers, initializing, isShuttingDown, sd, afterShutdown>>

\* C11: shutdown is idempotent: a shutdown() call made after another one
\* began (while that one still drains, or after it finished) drains nothing,
\* closes nothing and leaves the state what the single shutdown makes it.
C11_SecondShutdownNoop ==
    [][(shutdownCalls' # shutdownCalls /\ isShuttingDown)
          => UNCHANGED allButShutdownCalls]_vars

\* a second shutdown() was made while the first still awaits the drain of
\* the context pool, a call holding one of its contexts
C11_Witness ==
    /\ shutdownCalls >= 2
    /\ sd = "drainCtx"
    /\ DrainAwaits # {}

\* C12 (as claimed): once shutdown() has been invoked, a withPage call made
\* afterwards fails without creating a page and without invoking fn, and
\* the context pool shutdown() drains is not replaced by a new one.
C12_NoWorkAfterShutdown ==
    /\ \A c \in Callers : afterShutdown[c] => pc[c] \notin {"newPage", "fn"}
    /\ isShuttingDown => poolDraining

\* C13 (as claimed): the scheduled restart leaves withPage calls working: a
\* call, issued before or after the restart, finds the context it acquired
\* open and the page it works on usable (no shutdown() being involved).
C13_CallsSurviveRestart ==
    shutdownCalls = 0 =>
        \A c \in Callers :
            /\ pc[c] = "newPage" => ctxSt[context[c]] = "open"
            /\ pc[c] = "fn" => PageUsable(c)

\* C14 (as claimed): while a scheduled restart runs there is a connected
\* browser at every instant, the replacement being launched before the old
\* browser is closed.
C14_ConnectedDuringRestart ==
    initializing["restart"] > 0 => connected

(***************************************************************************)
(* Claims about the crawler                                                *)
(***************************************************************************)
\* C15: processWithRetry makes at most maxRetries + 1 attempts; it returns
\* at the first attempt that succeeds, starting no other; after failed
\* attempt a that is not the last it sleeps min(1000 * 2^(a-1), 5000) ms,
\* and after the last it does not sleep but throws that attempt's error.
C15_RetryContract ==
    /\ tried <= maxRetries + 1
    /\ rpc = "returned" => Len(errs) = tried - 1
    /\ rpc = "thrown" => /\ tried = maxRetries + 1
                         /\ Len(errs) = tried
                         /\ lastError = errs[tried]
                         /\ Len(slept) = maxRetries
    /\ rpc \in {"try", "returned"} => Len(slept) = tried - 1
    /\ rpc = "sleep" => Len(slept) = tried /\ Len(errs) = tried
    /\ \A a \in 1..Len(slept) :
          slept[a] = IF 1000 * 2^(a - 1) < 5000 THEN 1000 * 2^(a - 1) ELSE 5000

\* maxRetries = 2, attempts 1 and 2 failed, attempt 3 succeeded after sleeps
\* of 1 s and 2 s
C15_Witness ==
    /\ maxRetries = 2
    /\ rpc = "returned"
    /\ tried = 3
    /\ Len(errs) = 2
    /\ slept = <<1000, 2000>>


(***************************************************************************)
(* The crawl's result (C16..C20)                                           *)
(***************************************************************************)
\* a URL with its scheme, a leading www. and a trailing slash ignored
RootNorm(u) == DropTrailingSlash(DropPrefix(StripScheme(u), "www."))

\* C16: the subpages list of a crawl's result has at most k entries
\* (k = subpagesCount) and none of them is the root URL, scheme, leading
\* www. and trailing slash ignored; also when selectBestSubpages returned
\* through its catch.
C16_AtMostKNoRoot ==
    response.status = "success" =>
        /\ Len(response.subpages) <= req.subpagesCount
        /\ \A j \in 1..Len(response.subpages) :
              RootNorm(response.subpages[j].url) # RootNorm(req.formattedUrl)

\* the selection fell back, what it returned held the root, and a subpage
\* came through
C16_Witness ==
    /\ response.status = "success"
    /\ selected.fellBack
    /\ \E i \in 1..Len(selected.urls) :
          RootNorm(selected.urls[i]) = RootNorm(req.formattedUrl)
    /\ Len(response.subpages) >= 1

ExampleCandidates ==
    <<"https://site.com/about", "https://site.com/privacy", "https://site.com/products/x",
      "https://site.com/products/x/y/z", "https://site.com/cart", "https://site.com/features">>

\* what C17 says of a returned URL u
WellSelected(u) ==
    /\ DropPrefix(hostname(u), "www.") = DropPrefix(hostname(req.formattedUrl), "www.")
    /\ \A i \in 1..Len(req.excludePatterns) : ~Includes(u, req.excludePatterns[i])
    /\ Depth(pathname(u)) <= req.maxDepth

\* C17: every URL selectBestSubpages returns has the root's host (a leading
\* www. ignored), contains no exclude pattern and has at most maxDepth
\* non-empty path segments; with root https://site.com, maxDepth 2, K = 3
\* and the six candidates of the example, /about, /products/x and /features
\* are selected.
C17_SelectionFilters ==
    /\ mainPageResult = "ok" => \A i \in 1..Len(selected.urls) : WellSelected(selected.urls[i])
    /\ (/\ mainPageResult = "ok"
        /\ req.formattedUrl = "https://site.com"
        /\ req.maxDepth = 2
        /\ req.subpagesCount = 3
        /\ req.keywordsIterable
        /\ mainPageUrls = ExampleCandidates)
          => Range(selected.urls) = {"https://site.com/about", "https://site.com/products/x",
                                     "https://site.com/features"}

\* the subpage scrapes that are running: processWithRetry was called and
\* has not settled
RunningScrapes == {i \in Subs : scrape[i] = "running"}

\* C18: within one crawl, at every instant at most
\* MAX_CONCURRENT_SUBPAGE_REQUESTS subpage scrapes are running, whatever
\* the number of selected subpages and whichever of them time out.
C18_ConcurrencyCap == Cardinality(RunningScrapes) <= MAX_CONCURRENT_SUBPAGE_REQUESTS

\* C19: when the root scrape succeeded, the crawl's response is the
\* successful aggregated result, whichever subpage scrapes failed or timed
\* out: none of them fails the crawl, and every selected subpage was
\* scraped.
C19_SubpageFailuresIsolated ==
    (wpc = "responded" /\ mainPageResult = "ok") =>
        /\ response.status = "success"
        /\ \A i \in 1..Len(filtered) :
              /\ scrape[i] # "none"
              /\ promise[i] \in {"ok", "error", "timeout"}
        /\ response.subpagesProcessed + response.subpagesFailed = Len(filtered)

\* a crawl of three subpages responded: the first failed, the second timed
\* out, the third was scraped after them
C19_Witness ==
    /\ wpc = "responded"
    /\ response.status = "success"
    /\ Len(filtered) = 3
    /\ promise = <<"error", "timeout", "ok">>
    /\ Len(response.subpages) = 1

\* C20: every selected subpage whose scrape failed or timed out is in the
\* subpages list of the aggregated result, as an entry with success false
\* and its URL.
C20_FailedSubpagesListed ==
    response.status = "success" =>
        \A i \in 1..Len(filtered) :
            promise[i] \in {"error", "timeout"} =>
                \E j \in 1..Len(response.subpages) :
                    /\ response.subpages[j].url = filtered[i]
                    /\ ~response.subpages[j].success

\* C21: in the links of a scraped page and in the merged links of a crawl no
\* URL is both a social and an external URL; a page that links to
\* https://twitter.com/x and https://blog.example.com has twitter as its
\* only social URL and the blog, not twitter, among its external URLs.
C21_SocialExternalDisjoint ==
    /\ kpc # "idle" =>
          /\ Range(linkBundle.social_urls) \cap Range(linkBundle.external_urls) = {}
          /\ rootAnchors = <<"https://twitter.com/x", "https://blog.example.com">> =>
                /\ Range(linkBundle.social_urls) = {"https://twitter.com/x"}
                /\ "https://blog.example.com" \in Range(linkBundle.external_urls)
                /\ "https://twitter.com/x" \notin Range(linkBundle.external_urls)
    /\ kpc = "merged" => mergedBundle.social_urls \cap mergedBundle.external_urls = {}

\* C22: a metrics tick that observes an RSS above 1.5 GB has, the memory
\* staying there, one of two results: releaseUnusedContexts closed at least
\* one context, or a background restart of the browser was scheduled;
\* whether global.gc is defined or not and whatever pages the contexts hold.
C22_CriticalTickActs ==
    (tick.high /\ ~tick.recheck /\ ~tick.dropped) => (tick.released >= 1 \/ tick.restart)

\* C23: a scrape is started for an HTTP request only after permitAuth has
\* allowed that request (its user key, its action, its target domain), on
\* every route that leads to the scraping logic.
C23_AllowBeforeScrape ==
    hlog.scraped => hlog.decision = "allow"

\* C24: a request with the free key that asks for advanced scraping, by
\* body.advanced or by the options of the body, is not allowed and no scrape
\* is started for it; a basic request with the free key that permitAuth
\* decides within the quota is allowed; an admin request that permitAuth
\* decides is allowed, whatever it asks for.
WantsAdvanced(r) == r.advanced \/ r.options = "advanced"

Decided == hlog.decision \in {"allow", "deny"}

C24_TierDecisions ==
    /\ (hreq.key = "free" /\ WantsAdvanced(hreq)) =>
          (hlog.decision # "allow" /\ ~hlog.scraped)
    /\ (hreq.key = "free" /\ ~WantsAdvanced(hreq) /\ Decided /\ hlog.quota) =>
          hlog.decision = "allow"
    /\ (hreq.key = "admin" /\ Decided) => hlog.decision = "allow"

RunningTasks == {i \in Items : phase[i] = "running"}

C26_TopLevelBound ==
    Cardinality(RunningTasks) + crawlRoots <= maxConcurrent

\* C27: the counters of pagesPerContext add up to the number of open pages,
\* none is negative, and their total is at most MAX_CONTEXTS *
\* MAX_PAGES_PER_CONTEXT; so the creation of a page adds one to the counter
\* of its context and its cleanup takes one off.
MAX_PAGES_PER_CONTEXT == 10

RECURSIVE SumOver(_, _)
SumOver(f, S) == IF S = {} THEN 0 ELSE f[Min(S)] + SumOver(f, S \ {Min(S)})

TrackedPages == SumOver(pagesPerContext, Ctx)

LivePages == SumOver([x \in Ctx |-> PageCount(BState, x)], Ctx)

C27_CountersMatchPages ==
    /\ \A x \in Ctx : pagesPerContext[x] >= 0
    /\ TrackedPages = LivePages
    /\ TrackedPages <= MAX_CONTEXTS * MAX_PAGES_PER_CONTEXT

\* C28: shutdown never throws: when draining a pool or closing the browser
\* fails, the error is logged and shutdown returns normally.
C28_ShutdownNeverThrows ==
    sd # "threw"

\* C28, as the code has it: when a step of shutdown fails, shutdown logs the
\* error and throws it again; no later step of it runs, isShuttingDown stays
\* set, and a later call of shutdown returns at once.
C28_ShutdownRethrows ==
    /\ sdFailed # "none" => (sd = "threw" /\ isShuttingDown)
    /\ sdFailed = "drainCtx" => ~pagePoolDraining

C28_Witness ==
    /\ sd = "threw"
    /\ sdFailed = "drainPages"
    /\ shutdownCalls = MaxShutdownCalls

\* C29: an attempt that fails with a timeout is not retried: the timeout is
\* what processWithRetry throws, and no attempt is started after it.
IsTimeout(e) == parseError(e) = "TIMEOUT"

C29_TimeoutNotRetried ==
    \A i \in 1..Len(errs) :
        IsTimeout(errs[i]) => (tried = i /\ rpc = "thrown" /\ lastError = errs[i])

\* C30: once the request of a processWithRetry call is cancelled, the call
\* starts no further attempt.
C30_NoAttemptAfterCancel ==
    cancelAt # -1 => tried = cancelAt

\* C31: a context the context pool lends to withPage is open, so able to
\* create a page: a context that cleanupPage, releaseUnusedContexts or the
\* 'close' handler of a page has closed is not lent again.
C31_LentContextOpen ==
    [][\A c \in Callers :
          (pc[c] = "getCtx" /\ pc'[c] = "newPage") => ctxSt'[context'[c]] = "open"]_vars

\* C32: each selected subpage has one entry in the results of the fan-out,
\* at its place in the selection; a subpage whose scrape is not over when
\* its timeout fires has a failure entry, counted among the failed ones, and
\* when its scrape ends later neither the entry nor the response changes.
EntrySettled(i) == promise[i] \in {"ok", "error", "timeout"}

C32_OneEntryPerSubpage ==
    /\ [](wpc = "responded" /\ response.status = "success" =>
             /\ \A i \in 1..Len(filtered) : EntrySettled(i)
             /\ \A i \in Subs : i > Len(filtered) => promise[i] = "none"
             /\ response.subpagesProcessed + response.subpagesFailed = Len(filtered)
             /\ response.subpagesFailed >=
                   Cardinality({i \in 1..Len(filtered) : promise[i] = "timeout"}))
    /\ [][/\ \A i \in Subs : EntrySettled(i) => promise'[i] = promise[i]
          /\ wpc = "responded" => response' = response]_vars

C32_Witness ==
    /\ wpc = "responded"
    /\ response.status = "success"
    /\ \E i \in 1..Len(filtered) : promise[i] = "timeout" /\ scrape[i] = "ok"
    /\ \E i \in 1..Len(filtered) : promise[i] = "ok"

\* C33: the queue is work-conserving: after each enqueue, task completion
\* and queue-timeout handler, activeRequests is maxConcurrent whenever an
\* item is waiting; no item waits while a slot is free.
C33_WorkConserving ==
    queue # <<>> => activeRequests = maxConcurrent

C33_Witness ==
    /\ Len(queue) = 1
    /\ activeRequests = maxConcurrent
    /\ \E i \in Items : phase[i] = "running" /\ outcome[i] = "requestTimeout"

\* C34: an enqueued item is either dispatched, its task being invoked once,
\* or removed by the queue-timeout handler, its task never being invoked,
\* and not both; the queue-timeout timer is cleared at the dispatch and does
\* nothing to a dispatched item; the promise of Enqueue settles at most once.
Dispatched(i) == phase[i] \in {"running", "done"}

C34_DispatchedOrRemoved ==
    /\ [](\A i \in Items :
             /\ invoked[i] <= 1
             /\ Dispatched(i) => (invoked[i] = 1 /\ ~timeout[i])
             /\ phase[i] = "removed" => (invoked[i] = 0 /\ outcome[i] = "queueTimeout")
             /\ phase[i] \in {"idle", "waiting"} => (invoked[i] = 0 /\ outcome[i] = "pending"))
    /\ [][\A i \in Items :
             /\ outcome[i] # "pending" => outcome'[i] = outcome[i]
             /\ Dispatched(i) => Dispatched(i)'
             /\ phase[i] = "removed" => phase'[i] = "removed"]_vars

C34_Witness ==
    /\ \E i \in Items : phase[i] = "removed" /\ ~timeout[i]
    /\ \E i \in Items : phase[i] = "done" /\ outcome[i] = "requestTimeout"
    /\ \E i \in Items : phase[i] = "done" /\ outcome[i] = "resolved"

InFlight(i) == invoked[i] > 0 /\ phase[i] # "done"

C36_SlotHeldUntilSettled ==
    /\ [](activeRequests = Cardinality({i \in Items : InFlight(i)}))
    /\ [][\A i \in Items :
            /\ (InFlight(i) /\ reqTimer[i] /\ ~reqTimer'[i] /\ aborted'[i])
                 => /\ outcome'[i] = "requestTimeout"
                    /\ InFlight(i)'
                    /\ activeRequests' = activeRequests
            /\ (InFlight(i) /\ phase'[i] = phase[i]) => InFlight(i)']_vars

\* an item timed out while running, holds one of the two slots with another
\* running item, and a third item waits for a slot
C36_Witness ==
    \E i \in Items :
        /\ outcome[i] = "requestTimeout"
        /\ InFlight(i)
        /\ activeRequests = maxConcurrent
        /\ queue # <<>>

\* C37: between one initialization of the browser and the next at most one
\* background restart is scheduled.  totalPagesProcessed counts the
\* successful withPage calls since the last initialization and isShuttingDown
\* is never reset, so a restart was scheduled since that initialization
\* whenever the counter is at the threshold outside a shutdown: no step
\* from such a state arms another restart timer.
C37_OneRestartPerInit ==
    [][(totalPagesProcessed >= BROWSER_RESTART_THRESHOLD /\ ~isShuttingDown)
          => timers'["restart"] <= timers["restart"]]_vars

\* C38: once shutdown() has completed the browser stays closed: the callback
\* of no timer, armed by the disconnect handler or by
\* scheduleBackgroundBrowserRestart, begins an initializeBrowser.
C38_ClosedAfterShutdown ==
    [][sd = "done" =>
          \A k \in TimerKinds : initializing'[k] <= initializing[k]]_vars

\* C39: while the body of a withPage call is executing no other activity
\* closes its page, its context or its browser: in a step that leaves the
\* call in its body, a usable page stays usable and the browser connected.
\* Only steps the idle timer can take are looked at: those with at most one
\* request active.
C39_BodyKeepsPage ==
    [][\A c \in Callers :
          (bmActiveRequests <= 1 /\ pc[c] = "fn" /\ pc'[c] = "fn" /\ PageUsable(c) /\ connected)
             => (PageUsable(c)' /\ connected')]_vars

\* C40: the decision of a request is that of its own key's tier, its action
\* and its target: whatever other requests permitAuth handles meanwhile, a
\* decided call allowed exactly what the policy allows its tier.
C40_DecisionFromOwnTier ==
    \A r \in AuthCalls :
        auth[r].pc = "done" =>
            (auth[r].decision = "allow"
               <=> PermitCheck(TierOf(auth[r].key), ActionOf(auth[r].advanced),
                               auth[r].advanced, auth[r].quota))
====
